---- MODULE Spec2Model ----
(***************************************************************************)
(* A model of the a11y-toolbox in-page analysis functions: the accessible  *)
(* name resolver (getAccessibleText and its helpers), the XPath            *)
(* synthesizer (getXpath) and the selector synthesizer (window.getSelector)*)
(* run against a small document tree.                                      *)
(*                                                                         *)
(* Text is a sequence of characters; a character is a TLA+ string, and a   *)
(* whole word such as "Submit" may stand for one non-blank character.      *)
(* A document is a sequence of nodes numbered in document order (preorder):*)
(* node 1 is document.documentElement, par is the parent's number.         *)
(***************************************************************************)
EXTENDS Integers, Sequences, FiniteSets, TLC

VARIABLES nodes, faults, call,
          window, request, pc, browser, page, scripts,
          visit, processedElements, exposed, elementsArray, console, reply,
          axe, manager

\* The state of the request handler, of the rendering provider and of the
\* in-page extraction.
serverVars == <<window, request, pc, browser, page, scripts,
                visit, processedElements, exposed, elementsArray, console, reply,
                axe, manager>>

vars == <<nodes, faults, call,
          window, request, pc, browser, page, scripts,
          visit, processedElements, exposed, elementsArray, console, reply,
          axe, manager>>

(***************************************************************************)
(* Bounds of the model.                                                    *)
(***************************************************************************)
MaxNodes == 4

\* Largest number of nodes of a document loaded while a provider function fails.
MaxFaultNodes == 3

\* Largest number of nodes of a document selectors and paths are made for.
MaxSelectorNodes == 4

\* Number of concurrent calls of createPageWithScripts.
MaxCalls == 3

\* Largest number of elements nested below a button whose content is walked.
MaxLevels == 3

\* Largest number of nodes of a chain the contextual selector climbs.
MaxChainNodes == 6

\* Largest number of nodes of a document paths alone are made for.
MaxPathNodes == 4

\* Largest number of nodes of a document sent for extraction.
MaxServerNodes == 3

\* Longest code analyzed.
MaxCodeLen == 4

\* Largest number of nodes of a document of images and buttons.
MaxImageNodes == 4

\* Largest number of nodes of a document with elements hidden by style.
MaxHiddenNodes == 4

\* Deepest nesting of getAccessibleText / computeChildAccessibleName frames
\* the model follows before it reports the call as not returning.
StackLimit == 2 * MaxNodes + 3

(***************************************************************************)
(* JavaScript strings.                                                     *)
(***************************************************************************)
\* What getAttribute returns for an attribute the element does not have.
NULL == <<"<null>">>

\* JavaScript truthiness of a string-or-null value.
Truthy(s) == s # NULL /\ s # <<>>

\* a || b
OrElse(a, b) == IF Truthy(a) THEN a ELSE b

\* a || ''
Str(a) == IF Truthy(a) THEN a ELSE <<>>

\* The characters \s matches.
IsWs(c) == c \in {" ", "\n", "\r", "\t"}

Max(a, b) == IF a >= b THEN a ELSE b

RECURSIVE TrimLeft(_)
TrimLeft(s) == IF s # <<>> /\ IsWs(Head(s)) THEN TrimLeft(Tail(s)) ELSE s

Rev(s) == [i \in 1..Len(s) |-> s[Len(s) + 1 - i]]

\* String.prototype.trim
Trim(s) == Rev(TrimLeft(Rev(TrimLeft(s))))

\* s.replace(/\s+/g, ' ')
RECURSIVE Squeeze(_)
Squeeze(s) ==
    IF s = <<>> THEN <<>>
    ELSE IF IsWs(Head(s)) THEN <<" ">> \o Squeeze(TrimLeft(s))
    ELSE <<Head(s)>> \o Squeeze(Tail(s))

normalizeTextNoTrim(text) == IF ~Truthy(text) THEN <<>> ELSE Squeeze(text)

normalizeText(text) == IF ~Truthy(text) THEN <<>> ELSE Trim(Squeeze(text))

\* The leading run of non-blank characters.
RECURSIVE TakeWord(_)
TakeWord(s) ==
    IF s = <<>> \/ IsWs(Head(s)) THEN <<>>
    ELSE <<Head(s)>> \o TakeWord(Tail(s))

\* s.trim().split(/\s+/).filter(id => id && id.length > 0)
RECURSIVE SplitWs(_)
SplitWs(s) ==
    LET t == TrimLeft(s) IN
    IF t = <<>> THEN <<>>
    ELSE LET w == TakeWord(t) IN <<w>> \o SplitWs(SubSeq(t, Len(w) + 1, Len(t)))

\* arr.indexOf(x), 1-based, for an x that occurs in arr.
IndexOf(arr, x) ==
    CHOOSE i \in 1..Len(arr) : arr[i] = x /\ \A j \in 1..(i - 1) : arr[j] # x

RECURSIVE KeepFrom(_, _)
KeepFrom(arr, i) ==
    IF i > Len(arr) THEN <<>>
    ELSE (IF IndexOf(arr, arr[i]) = i THEN <<arr[i]>> ELSE <<>>) \o KeepFrom(arr, i + 1)

KeepAllTokens(arr) == arr

\* arr.filter((id, index, arr) => arr.indexOf(id) === index)
RemoveDuplicates(arr) == KeepFrom(arr, 1)

\* parts.join(' ')
RECURSIVE JoinSp(_)
JoinSp(parts) ==
    IF parts = <<>> THEN <<>>
    ELSE IF Len(parts) = 1 THEN parts[1]
    ELSE parts[1] \o <<" ">> \o JoinSp(Tail(parts))

\* String.prototype.toLowerCase on the upper-case words the documents use.
LowerChar(c) ==
    CASE c = "BUTTON" -> "button"
      [] c = "LINK" -> "link"
      [] c = "SUBMIT" -> "submit"
      [] OTHER -> c

toLowerCase(s) == [i \in 1..Len(s) |-> LowerChar(s[i])]

\* The set S of numbers as an ascending sequence.
RECURSIVE SortSet(_)
SortSet(S) ==
    IF S = {} THEN <<>>
    ELSE LET m == CHOOSE x \in S : \A y \in S : x <= y
         IN <<m>> \o SortSet(S \ {m})

(***************************************************************************)
(* The document tree as the rendering provider exposes it.                 *)
(***************************************************************************)
NoAttrs == [a \in {} |-> <<>>]

\* An element node. disp and vis are the computed display and visibility;
\* bc/ac the computed content of ::before/::after, bhid/ahid whether the
\* pseudo-element is display:none or visibility:hidden.
El(tag, at) ==
    [type |-> 1, tag |-> tag, par |-> 0, data |-> <<>>, at |-> at,
     disp |-> "block", vis |-> "visible",
     bc |-> <<"none">>, ac |-> <<"none">>, bhid |-> FALSE, ahid |-> FALSE]

\* A text node.
Tx(data) ==
    [type |-> 3, tag |-> "#text", par |-> 0, data |-> data, at |-> NoAttrs,
     disp |-> "inline", vis |-> "visible",
     bc |-> <<"none">>, ac |-> <<"none">>, bhid |-> FALSE, ahid |-> FALSE]

NodeIds == 1..Len(nodes)

Elements == {n \in NodeIds : nodes[n].type = 1}

\* element.getAttribute(name)
getAttribute(n, name) ==
    IF name \in DOMAIN nodes[n].at THEN nodes[n].at[name] ELSE NULL

hasAttribute(n, name) == name \in DOMAIN nodes[n].at

\* element.childNodes, in document order.
childNodes(n) == SortSet({c \in NodeIds : nodes[c].par = n})

\* element.children
children(n) == SortSet({c \in Elements : nodes[c].par = n})

RECURSIVE Ancestors(_)
Ancestors(n) ==
    IF nodes[n].par = 0 THEN {} ELSE {nodes[n].par} \cup Ancestors(nodes[n].par)

Descendants(n) == {d \in NodeIds : n \in Ancestors(d)}

\* node.textContent, leaving out the subtrees of the elements in skip.
RECURSIVE textContentWithout(_, _), textOfAll(_, _)
textContentWithout(n, skip) ==
    IF n \in skip THEN <<>>
    ELSE IF nodes[n].type = 3 THEN nodes[n].data
    ELSE textOfAll(childNodes(n), skip)
textOfAll(kids, skip) ==
    IF kids = <<>> THEN <<>>
    ELSE textContentWithout(Head(kids), skip) \o textOfAll(Tail(kids), skip)

textContent(n) == textContentWithout(n, {})

\* element.querySelector restricted to a predicate already evaluated: the
\* first node of the set S in document order, 0 when there is none.
First(S) == IF S = {} THEN 0 ELSE CHOOSE x \in S : \A y \in S : x <= y

DescendantsTagged(n, tag) == {d \in Descendants(n) : nodes[d].type = 1 /\ nodes[d].tag = tag}

(***************************************************************************)
(* The accessible name resolver.  Every operator returns a record:         *)
(*   v       the returned string,                                          *)
(*   thrown  whether the call ended in an exception instead,               *)
(*   lb      how many aria-labelledby attributes were followed one inside  *)
(*           the other while computing v,                                  *)
(*   cut     whether the nesting of calls exceeded StackLimit.             *)
(***************************************************************************)
Ok(v) == [v |-> v, thrown |-> FALSE, lb |-> 0, cut |-> FALSE]

Throw == [v |-> <<>>, thrown |-> TRUE, lb |-> 0, cut |-> FALSE]

Cut == [v |-> <<>>, thrown |-> FALSE, lb |-> 0, cut |-> TRUE]

\* The result r with its string replaced; an exception carries no string.
WithV(r, v) == [r EXCEPT !.v = IF r.thrown THEN <<>> ELSE v]

\* Two steps run one after the other, their strings concatenated.
Both(r1, r2) ==
    IF r1.thrown THEN r1
    ELSE [v |-> IF r2.thrown THEN <<>> ELSE r1.v \o r2.v,
          thrown |-> r2.thrown,
          lb |-> Max(r1.lb, r2.lb),
          cut |-> r1.cut \/ r2.cut]

\* window.getComputedStyle(element) throws for every element.
StyleFails == "style" \in faults

shouldIgnoreElementNoRole(n) ==
    \/ getAttribute(n, "aria-hidden") = <<"true">>
    \/ /\ ~StyleFails
       /\ (nodes[n].disp = "none" \/ nodes[n].vis = "hidden")

shouldIgnoreElementNoStyle(n) ==
    \/ getAttribute(n, "aria-hidden") = <<"true">>
    \/ getAttribute(n, "role") \in {<<"presentation">>, <<"none">>}

shouldIgnoreElement(n) ==
    \/ getAttribute(n, "aria-hidden") = <<"true">>
    \/ getAttribute(n, "role") \in {<<"presentation">>, <<"none">>}
    \/ /\ ~StyleFails
       /\ (nodes[n].disp = "none" \/ nodes[n].vis = "hidden")

\* value.replace(/^["']|["']$/g, '')
StripQuotes(s) ==
    LET a == IF s # <<>> /\ Head(s) \in {"\"", "'"} THEN Tail(s) ELSE s
    IN IF a # <<>> /\ a[Len(a)] \in {"\"", "'"} THEN SubSeq(a, 1, Len(a) - 1) ELSE a

PseudoContent(value, hidden) ==
    IF Truthy(value) /\ value # <<"none">> /\ value # <<"\"", "\"">> /\ ~hidden
    THEN StripQuotes(value) ELSE <<>>

getPseudoElementContent(n) ==
    IF StyleFails THEN [beforeContent |-> <<>>, afterContent |-> <<>>]
    ELSE [beforeContent |-> PseudoContent(nodes[n].bc, nodes[n].bhid),
          afterContent |-> PseudoContent(nodes[n].ac, nodes[n].ahid)]

\* document.querySelectorAll('[id="' + CSS.escape(id) + '"]'), in document order
ElementsWithId(id) == SortSet({e \in Elements : getAttribute(e, "id") = id})

\* The elements one IDREF of aria-labelledby resolves to.
resolveIdref(id) ==
    IF "qsa" \notin faults THEN ElementsWithId(id)
    ELSE IF "byId" \notin faults /\ ElementsWithId(id) # <<>>
         THEN <<Head(ElementsWithId(id))>>
    ELSE <<>>

RECURSIVE referencedOf(_)
referencedOf(idrefs) ==
    IF idrefs = <<>> THEN <<>>
    ELSE resolveIdref(Head(idrefs)) \o referencedOf(Tail(idrefs))

idrefsOf(n) == RemoveDuplicates(SplitWs(getAttribute(n, "aria-labelledby")))

referencedElements(n) == referencedOf(idrefsOf(n))

arialabelTextRaw(n) == Str(getAttribute(n, "aria-label"))

arialabelText(n) == normalizeText(Str(getAttribute(n, "aria-label")))

\* The label lookup of getAssociatedLabel throws (document.querySelector or
\* CSS.escape is unusable): reached only for a control that has an id.
LabelLookupFails == "label" \in faults

FormControls(n) ==
    {d \in Descendants(n) : nodes[d].type = 1 /\ nodes[d].tag \in {"input", "select", "textarea"}}

\* element.closest('label')
closestLabel(n) ==
    LET c == {a \in Ancestors(n) \cup {n} : nodes[a].type = 1 /\ nodes[a].tag = "label"}
    IN IF c = {} THEN 0 ELSE CHOOSE x \in c : \A y \in c : x >= y

getAssociatedLabelNone(n) == Ok(<<>>)

getAssociatedLabelImplicitFirst(n) ==
    LET id == getAttribute(n, "id")
        explicit == First({l \in Elements :
                             nodes[l].tag = "label" /\ getAttribute(l, "for") = id})
        parentLabel == closestLabel(n)
    IN IF parentLabel # 0
       THEN Ok(Trim(textContentWithout(parentLabel, FormControls(parentLabel))))
       ELSE IF Truthy(id) /\ explicit # 0 THEN Ok(Trim(textContent(explicit)))
       ELSE Ok(<<>>)

getAssociatedLabel(n) ==
    LET id == getAttribute(n, "id")
        explicit == First({l \in Elements :
                             nodes[l].tag = "label" /\ getAttribute(l, "for") = id})
        parentLabel == closestLabel(n)
    IN IF Truthy(id) /\ LabelLookupFails THEN Throw
       ELSE IF Truthy(id) /\ explicit # 0 THEN Ok(Trim(textContent(explicit)))
       ELSE IF parentLabel # 0
            THEN Ok(Trim(textContentWithout(parentLabel, FormControls(parentLabel))))
       ELSE Ok(<<>>)

\* Whether step 2B of getAccessibleText takes the aria-labelledby branch.
followsLabelledby(n, inLabelledByContext) ==
    ~inLabelledByContext /\ Truthy(getAttribute(n, "aria-labelledby"))

\* The text nodes among the children of n, concatenated.
RECURSIVE directText(_)
directText(kids) ==
    IF kids = <<>> THEN <<>>
    ELSE (IF nodes[Head(kids)].type = 3 THEN nodes[Head(kids)].data ELSE <<>>)
         \o directText(Tail(kids))

inputTypeOf(n) ==
    LET t == getAttribute(n, "type")
    IN IF t = NULL THEN <<"text">> ELSE OrElse(toLowerCase(t), <<"text">>)

Unspaced(r) == r

\* name + ' ' when name is non-empty
Spaced(r) == IF Truthy(r.v) THEN WithV(r, r.v \o <<" ">>) ELSE WithV(r, <<>>)

\* The inLabelledByContext argument of the call made for a referenced element.
RefCallContext == TRUE

ChildCallContextLost == FALSE

\* The inLabelledByContext argument of the calls made by the child walk.
ChildCallContext == TRUE

RECURSIVE getAccessibleText(_, _, _), resolveSteps(_, _, _),
          arialabelledbyText(_, _, _), namesOf(_, _),
          nativeTextAlternative(_, _), getRoleSpecificName(_, _),
          computeChildAccessibleName(_, _, _), walkChildNodes(_, _, _),
          childContribution(_, _, _)

\* refs.map(ref => getAccessibleText(ref, true)?.trim() || '') with the
\* local catch, then filter(text => text.length > 0).
namesOf(refs, fuel) ==
    IF refs = <<>> THEN [names |-> <<>>, lb |-> 0, cut |-> FALSE]
    ELSE LET r == getAccessibleText(Head(refs), RefCallContext, fuel)
             text == IF r.thrown THEN Trim(textContent(Head(refs))) ELSE Trim(r.v)
             rest == namesOf(Tail(refs), fuel)
         IN [names |-> (IF text # <<>> THEN <<text>> ELSE <<>>) \o rest.names,
             lb |-> Max(r.lb, rest.lb),
             cut |-> r.cut \/ rest.cut]

arialabelledbyText(n, inLabelledByContext, fuel) ==
    IF inLabelledByContext \/ ~Truthy(getAttribute(n, "aria-labelledby")) THEN Ok(<<>>)
    ELSE IF idrefsOf(n) = <<>> THEN Ok(<<>>)
    ELSE IF referencedElements(n) = <<>> THEN Ok(<<>>)
    ELSE LET acc == namesOf(referencedElements(n), fuel)
         IN [v |-> Trim(Squeeze(JoinSp(acc.names))),
             thrown |-> FALSE,
             lb |-> 1 + acc.lb,
             cut |-> acc.cut]

getRoleSpecificName(n, fuel) ==
    LET role == getAttribute(n, "role")
        r == IF Truthy(role) THEN toLowerCase(role) ELSE <<>>
    IN IF ~Truthy(role) THEN Ok(<<>>)
       ELSE IF r \in {<<"button">>, <<"heading">>, <<"group">>, <<"region">>}
            THEN computeChildAccessibleName(n, 0, fuel)
       ELSE IF r = <<"link">>
            THEN LET linkName == computeChildAccessibleName(n, 0, fuel)
                 IN WithV(linkName, OrElse(linkName.v, Str(getAttribute(n, "title"))))
       ELSE IF r \in {<<"textbox">>, <<"searchbox">>}
            THEN Ok(OrElse(getAttribute(n, "aria-placeholder"),
                           Str(getAttribute(n, "placeholder"))))
       ELSE IF r \in {<<"slider">>, <<"spinbutton">>, <<"progressbar">>}
            THEN Ok(OrElse(getAttribute(n, "aria-valuetext"),
                           Str(getAttribute(n, "aria-valuenow"))))
       ELSE IF r = <<"img">> THEN Ok(Str(getAttribute(n, "alt")))
       ELSE Ok(<<>>)

\* The switch on the tag name of nativeTextAlternative.
imgTextAlternativeTruthyAlt(n) ==
    OrElse(getAttribute(n, "alt"), Str(getAttribute(n, "title")))

\* case 'img' of nativeTextAlternative
imgTextAlternative(n) ==
    IF getAttribute(n, "alt") # NULL THEN getAttribute(n, "alt")
    ELSE Str(getAttribute(n, "title"))

nativeByTag(n, fuel) ==
    LET tagName == nodes[n].tag
        title == Str(getAttribute(n, "title"))
    IN
    CASE tagName = "img" -> Ok(imgTextAlternative(n))
      [] tagName = "input" ->
           LET inputType == inputTypeOf(n)
               value == getAttribute(n, "value")
           IN CASE inputType \in {<<"submit">>, <<"reset">>, <<"button">>} ->
                     Ok(OrElse(value,
                               IF inputType = <<"submit">> THEN <<"Submit">>
                               ELSE IF inputType = <<"reset">> THEN <<"Reset">>
                               ELSE <<>>))
                [] inputType = <<"image">> ->
                     Ok(OrElse(getAttribute(n, "alt"), OrElse(value, <<"Submit">>)))
                [] inputType = <<"file">> ->
                     Ok(OrElse(value, <<"Choose file">>))
                [] inputType = <<"range">> ->
                     Ok(OrElse(getAttribute(n, "aria-valuetext"),
                               OrElse(getAttribute(n, "aria-valuenow"), Str(value))))
                [] OTHER ->
                     LET associatedLabel == getAssociatedLabel(n)
                     IN IF associatedLabel.thrown \/ Truthy(associatedLabel.v)
                        THEN associatedLabel
                        ELSE Ok(OrElse(getAttribute(n, "aria-placeholder"),
                                       OrElse(getAttribute(n, "placeholder"), title)))
      [] tagName = "button" ->
           LET name == computeChildAccessibleName(n, 0, fuel)
           IN WithV(name, OrElse(name.v, title))
      [] tagName = "select" ->
           LET selected == First({o \in DescendantsTagged(n, "option") :
                                    hasAttribute(o, "selected")})
               option == IF selected # 0 THEN selected
                         ELSE First(DescendantsTagged(n, "option"))
           IN IF option # 0
              THEN Ok(OrElse(getAttribute(option, "label"), textContent(option)))
              ELSE getAssociatedLabel(n)
      [] tagName = "textarea" ->
           LET associatedLabel == getAssociatedLabel(n)
           IN IF associatedLabel.thrown \/ Truthy(associatedLabel.v)
              THEN associatedLabel
              ELSE Ok(OrElse(getAttribute(n, "aria-placeholder"),
                             OrElse(getAttribute(n, "placeholder"), title)))
      [] tagName = "a" ->
           LET name == computeChildAccessibleName(n, 0, fuel)
           IN IF Trim(name.v) # <<>> THEN name ELSE WithV(name, title)
      [] tagName \in {"fieldset", "figure"} ->
           LET inner == First(DescendantsTagged(n,
                              IF tagName = "fieldset" THEN "legend" ELSE "figcaption"))
           IN IF inner # 0 THEN Ok(Trim(textContent(inner))) ELSE Ok(<<>>)
      [] tagName = "table" ->
           LET caption == First(DescendantsTagged(n, "caption"))
           IN IF caption # 0 THEN Ok(Trim(textContent(caption)))
              ELSE Ok(Str(getAttribute(n, "summary")))
      [] tagName \in {"iframe", "object", "embed", "audio", "video"} -> Ok(title)
      [] tagName = "canvas" ->
           IF Truthy(getAttribute(n, "title")) THEN Ok(title)
           ELSE Ok(Trim(textContent(n)))
      [] tagName = "svg" ->
           LET svgTitle == First(DescendantsTagged(n, "title"))
           IN IF svgTitle # 0 THEN Ok(Trim(textContent(svgTitle))) ELSE Ok(title)
      [] tagName = "math" ->
           LET ann == First({d \in DescendantsTagged(n, "annotation") :
                               /\ getAttribute(d, "encoding") = <<"text/plain">>
                               /\ nodes[d].par # 0
                               /\ nodes[nodes[d].par].tag = "semantics"})
           IN IF ann # 0 /\ Trim(textContent(ann)) # <<>> THEN Ok(Trim(textContent(ann)))
              ELSE Ok(OrElse(getAttribute(n, "alttext"), title))
      [] OTHER ->
           IF hasAttribute(n, "contenteditable")
              /\ getAttribute(n, "contenteditable") # <<"false">>
           THEN Ok(title)
           ELSE LET childName == computeChildAccessibleName(n, 0, fuel)
                    pseudo == getPseudoElementContent(n)
                    pseudoOnly == pseudo.beforeContent \o pseudo.afterContent
                IN IF Trim(childName.v) # <<>>
                   THEN WithV(childName,
                              pseudo.beforeContent \o childName.v \o pseudo.afterContent)
                   ELSE IF Trim(pseudoOnly) # <<>> THEN WithV(childName, pseudoOnly)
                   ELSE WithV(childName, title)

nativeTextAlternativeTagFirst(n, fuel) ==
    IF n = 0 \/ nodes[n].type # 1 THEN Ok(<<>>)
    ELSE IF shouldIgnoreElement(n) THEN Ok(<<>>)
    ELSE LET byTag == nativeByTag(n, fuel)
         IN IF byTag.thrown \/ Truthy(byTag.v)
            THEN byTag
            ELSE Both(byTag, getRoleSpecificName(n, fuel))

nativeTextAlternative(n, fuel) ==
    IF n = 0 \/ nodes[n].type # 1 THEN Ok(<<>>)
    ELSE IF shouldIgnoreElement(n) THEN Ok(<<>>)
    ELSE LET roleSpecificName == getRoleSpecificName(n, fuel)
         IN IF roleSpecificName.thrown \/ Truthy(roleSpecificName.v)
            THEN roleSpecificName
            ELSE Both(roleSpecificName, nativeByTag(n, fuel))

\* What one child node adds to accessibleName in computeChildAccessibleName.
childContribution(c, depth, fuel) ==
    IF nodes[c].type = 3 THEN Ok(nodes[c].data)
    ELSE IF nodes[c].type # 1 THEN Ok(<<>>)
    ELSE IF shouldIgnoreElement(c) THEN Ok(<<>>)
    ELSE LET tagName == nodes[c].tag IN
         IF tagName \in {"img", "svg"}
         THEN Spaced(getAccessibleText(c, ChildCallContext, fuel))
         ELSE IF tagName = "input"
         THEN IF inputTypeOf(c) \in {<<"submit">>, <<"reset">>, <<"button">>, <<"image">>}
              THEN Spaced(getAccessibleText(c, ChildCallContext, fuel))
              ELSE Ok(<<>>)
         ELSE IF Truthy(getAttribute(c, "aria-label"))
         THEN Ok(getAttribute(c, "aria-label") \o <<" ">>)
         ELSE IF Truthy(getAttribute(c, "aria-labelledby"))
         THEN Spaced(getAccessibleText(c, ChildCallContext, fuel))
         ELSE IF depth < 2 THEN computeChildAccessibleName(c, depth + 1, fuel)
         ELSE Ok(directText(childNodes(c)))

walkChildNodes(kids, depth, fuel) ==
    IF kids = <<>> THEN Ok(<<>>)
    ELSE Both(childContribution(Head(kids), depth, fuel),
              walkChildNodes(Tail(kids), depth, fuel))

computeChildAccessibleName(n, depth, fuel) ==
    IF fuel = 0 THEN Cut
    ELSE IF depth > 2 THEN Ok(<<>>)
    ELSE LET r == walkChildNodes(childNodes(n), depth, fuel - 1)
         IN WithV(r, Trim(Squeeze(r.v)))

\* The try block of getAccessibleText.
resolveSteps(n, inLabelledByContext, fuel) ==
    IF shouldIgnoreElement(n) THEN Ok(<<>>)
    ELSE IF followsLabelledby(n, inLabelledByContext)
    THEN LET r == arialabelledbyText(n, inLabelledByContext, fuel)
         IN WithV(r, normalizeText(r.v))
    ELSE IF normalizeText(arialabelText(n)) # <<>>
    THEN Ok(normalizeText(arialabelText(n)))
    ELSE LET r == nativeTextAlternative(n, fuel)
         IN WithV(r, normalizeText(r.v))

fallbackTextTitleFirst(n) ==
    normalizeText(OrElse(Str(getAttribute(n, "title")), textContent(n)))

\* The catch block of getAccessibleText.
fallbackText(n) ==
    normalizeText(OrElse(textContent(n), Str(getAttribute(n, "title"))))

\* getAccessibleText(element, inLabelledByContext); n = 0 stands for null.
getAccessibleText(n, inLabelledByContext, fuel) ==
    IF n = 0 \/ nodes[n].type # 1 THEN Ok(<<>>)
    ELSE IF fuel = 0 THEN Cut
    ELSE LET r == resolveSteps(n, inLabelledByContext, fuel - 1)
         IN IF r.thrown
            THEN [v |-> fallbackText(n), thrown |-> FALSE, lb |-> r.lb, cut |-> r.cut]
            ELSE r

(***************************************************************************)
(* Documents.                                                              *)
(***************************************************************************)
RECURSIVE AncestorsIn(_, _)
AncestorsIn(p, i) == IF p[i] = 0 THEN {} ELSE {p[i]} \cup AncestorsIn(p, p[i])

\* The parent vectors of the trees of N nodes numbered in document order.
ParentVectors(N) ==
    {p \in [1..N -> 0..(N - 1)] :
        /\ p[1] = 0
        /\ \A i \in 2..N : p[i] \in 1..(i - 1)
        /\ \A i \in 3..N : p[i] \in {i - 1} \cup AncestorsIn(p, i - 1)}

\* The document of shape p whose root is root and whose other nodes are f.
Document(p, root, f) ==
    [i \in 1..Len(p) |-> [(IF i = 1 THEN root ELSE f[i]) EXCEPT !.par = p[i]]]

\* Only elements have children, and img and input elements have none.
WellFormed(d) ==
    \A i \in 2..Len(d) : d[d[i].par].type = 1 /\ d[d[i].par].tag \notin {"img", "input"}

\* nodes is a document of 2..maxNodes nodes whose root is root and whose
\* other nodes are drawn from profiles.
LoadDocument(root, profiles, maxNodes) ==
    \E N \in 2..maxNodes :
        \E p \in ParentVectors(N) :
            \E f \in [2..N -> profiles] :
                /\ nodes = Document(p, root, f)
                /\ WellFormed(nodes)

Html == El("html", NoAttrs)

\* The elements and text nodes the documents of the name resolver are made of.
NameProfiles ==
    { El("span", ("id" :> <<"a">>) @@ ("aria-label" :> <<" ", "x", "\n", " ", "y", " ">>)),
      El("span", ("id" :> <<"b">>) @@ ("aria-labelledby" :> <<"a", " ", "b">>)),
      El("div",  ("id" :> <<"a">>) @@ ("aria-labelledby" :> <<"b", " ", " ", "a", " ", "z", " ", "b">>)
                 @@ ("title" :> <<"t">>)),
      El("span", ("id" :> <<"b">>) @@ ("aria-hidden" :> <<"true">>) @@ ("aria-label" :> <<"h">>)),
      El("span", ("id" :> <<"a">>) @@ ("role" :> <<"presentation">>) @@ ("title" :> <<"p">>)),
      El("div",  ("aria-labelledby" :> <<>>) @@ ("aria-label" :> <<"y">>)),
      El("button", ("title" :> <<"t">>)),
      Tx(<<" ", "x", " ">>) }

NoCall == [op |-> "none", arg |-> 0, ret |-> Ok(<<>>)]

\* The in-page functions the analysis scripts define on window.
PageFunctions == {"getXpath", "getSelector", "getAccessibleText", "getPseudoElementContent"}

\* Every script defined its function and none of them throws.
AllLoaded == [missing |-> {}, throwing |-> {}, victim |-> 0]

NoRequest == [contentType |-> "", body |-> "none"]

NoReply == [status |-> 0, elements |-> <<>>]

\* window.axe._selectorData before enhanced-selector.js is loaded.
NoTable == [set |-> FALSE, data |-> [tags |-> <<>>, classes |-> <<>>, attributes |-> <<>>]]

\* The calls of createPageWithScripts in flight on the one browserManager;
\* call 0 is a call of close().
Callers == 1..MaxCalls

\* The BrowserManager no call has used: browser holds the instance the
\* manager references (0: null), launched the instances launched so far,
\* closed those shut down, at the position of each call, held the
\* instance close() is shutting down.
NoManager ==
    [browser |-> 0, launched |-> {}, closed |-> {}, held |-> 0,
     at |-> [c \in {0} \cup Callers |-> "idle"]]

\* No request is being handled: no browser, no page, nothing extracted.
ServerIdle ==
    /\ window = AllLoaded
    /\ request = NoRequest
    /\ pc = "idle"
    /\ browser = FALSE
    /\ page = "none"
    /\ scripts = 0
    /\ visit = 1
    /\ processedElements = {}
    /\ exposed = {}
    /\ elementsArray = <<>>
    /\ console = {}
    /\ reply = NoReply
    /\ axe = NoTable
    /\ manager = NoManager

Init ==
    /\ LoadDocument(Html, NameProfiles, MaxNodes)
    /\ faults = {}
    /\ call = NoCall
    /\ ServerIdle

\* window.getAccessibleText(element) called for node n of the freshly loaded
\* document; n = 0 is a call with null, a text node a call with a non-element.
Resolve(n) ==
    /\ call.op = "none"
    /\ call' = [op |-> "getAccessibleText", arg |-> n,
                ret |-> getAccessibleText(n, FALSE, StackLimit)]
    /\ UNCHANGED <<nodes, faults, serverVars>>

Next == \E n \in 0..Len(nodes) : Resolve(n)

Spec == Init /\ [][Next]_vars

\* The elements and text nodes of the documents resolved while a function of
\* the rendering provider fails.
FaultProfiles ==
    { El("input", ("id" :> <<"a">>) @@ ("title" :> <<"t">>)),
      El("textarea", ("id" :> <<"a">>) @@ ("title" :> <<"u">>)),
      El("label", ("for" :> <<"a">>)),
      El("span", ("id" :> <<"b">>) @@ ("aria-labelledby" :> <<"a">>)),
      [El("span", ("aria-label" :> <<"x">>)) EXCEPT !.disp = "none"],
      Tx(<<" ", "x", " ">>) }

\* The provider functions that throw, for the whole call: getComputedStyle;
\* querySelectorAll alone or with getElementById; the label lookup.
FaultSets == { {}, {"style"}, {"qsa"}, {"qsa", "byId"}, {"label"} }

InitFaults ==
    /\ LoadDocument(Html, FaultProfiles, MaxFaultNodes)
    /\ faults \in FaultSets
    /\ call = NoCall
    /\ ServerIdle

SpecFaults == InitFaults /\ [][Next]_vars

(***************************************************************************)
(* Selectors.  A selector is the sequence of its compound fragments, the   *)
(* outermost ancestor first, joined by the child combinator; the empty     *)
(* sequence is the empty string.  id and cls hold escaped names, attr is   *)
(* <<>> or <<name, escaped value>>, nth is 0 or the :nth-child index.      *)
(***************************************************************************)
Digits == {"0", "1", "2", "3", "4", "5", "6", "7", "8", "9"}

Letters ==
    {"a", "b", "c", "d", "e", "f", "g", "h", "i", "j", "k", "l", "m",
     "n", "o", "p", "q", "r", "s", "t", "u", "v", "w", "x", "y", "z"}

\* The tag names that consist of letters only (h1 does not).
LetterTags == {"html", "nav", "a", "div", "span", "p"}

\* The names every object literal inherits from Object.prototype; as a
\* token of a string each stands for its letters.
ObjectPrototype ==
    {"constructor", "toString", "valueOf", "hasOwnProperty", "isPrototypeOf",
     "propertyIsEnumerable", "toLocaleString"}

\* escapeSelector(raw) for the characters after the first.
RECURSIVE escapeRest(_)
escapeRest(s) ==
    IF s = <<>> THEN <<>>
    ELSE (IF Head(s) \in Letters \cup Digits \cup {"-", "_"} \cup ObjectPrototype
          THEN <<Head(s)>> ELSE <<"\\", Head(s)>>) \o escapeRest(Tail(s))

\* window.escapeSelector(raw): a leading digit is written as its code point,
\* also after a leading hyphen; a lone hyphen and every other character that
\* is not a name character get a backslash; null is the empty string.
escapeSelector(raw) ==
    LET s == Str(raw) IN
    IF s = <<>> THEN <<>>
    ELSE IF Head(s) \in Digits
         THEN <<"\\", "3", Head(s), " ">> \o escapeRest(Tail(s))
    ELSE IF Head(s) = "-" /\ Len(s) = 1 THEN <<"\\", "-">>
    ELSE IF Head(s) = "-" /\ s[2] \in Digits
         THEN <<"-", "\\", "3", s[2], " ">> \o escapeRest(Tail(Tail(s)))
    ELSE escapeRest(s)

\* value.replace(/([\\"])/g, '\\$1')
RECURSIVE escapeValue(_)
escapeValue(v) ==
    IF v = <<>> THEN <<>>
    ELSE (IF Head(v) \in {"\\", "\""} THEN <<"\\", Head(v)>> ELSE <<Head(v)>>)
         \o escapeValue(Tail(v))

\* element.classList
classList(n) ==
    IF hasAttribute(n, "class") THEN RemoveDuplicates(SplitWs(getAttribute(n, "class")))
    ELSE <<>>

\* element.attributes, in markup order: the attribute names the documents of
\* the model use, each element carrying them in this order.
attributes(n) ==
    SelectSeq(<<"id", "class", "for", "type", "role", "title", "aria-label",
                "aria-labelledby", "aria-hidden">>,
              LAMBDA a : hasAttribute(n, a))

ignoredAttributes ==
    {"class", "style", "id", "selected", "checked", "disabled", "tabindex",
     "aria-checked", "aria-selected", "aria-invalid", "aria-activedescendant",
     "aria-busy", "aria-disabled", "aria-expanded", "aria-grabbed",
     "aria-pressed", "aria-valuenow", "xmlns"}

\* name="value" as buildFullDomStatistics and generateHierarchicalSelector
\* write it; the attribute names of the model consist of name characters, which
\* escapeSelector leaves as they are, and none of them contains href or src.
attrSelector(n, a) == <<a, escapeValue(getAttribute(n, a))>>

\* The attribute strings buildFullDomStatistics counts for one element.
countedAttributes(n) ==
    {attrSelector(n, a) : a \in {b \in DOMAIN nodes[n].at :
                                    /\ b \notin ignoredAttributes
                                    /\ Len(nodes[n].at[b]) < 31}}

countedClasses(n) == {escapeSelector(classList(n)[i]) : i \in DOMAIN classList(n)}

\* A value of a table: the number n when text is empty, else the string text.
Count(n) == [n |-> n, text |-> <<>>]

\* The value of table[key] after k executions of
\* table[key] = (table[key] || 0) + 1 on an object literal: k, unless the
\* key names an inherited function, which is truthy, so that each + 1
\* appends "1" to its source text.
tally(inherited, name, k) ==
    IF ~inherited THEN Count(k)
    ELSE [n |-> 0,
          text |-> <<"function ", IF name = "constructor" THEN "Object" ELSE name,
                     "() { [native code] }">> \o [i \in 1..k |-> "1"]]

\* window.axe._selectorData = buildFullDomStatistics()
buildFullDomStatistics ==
    [tags |-> [t \in {nodes[e].tag : e \in Elements} |->
                  tally(FALSE, t, Cardinality({e \in Elements : nodes[e].tag = t}))],
     classes |-> [c \in UNION {countedClasses(e) : e \in Elements} |->
                      tally(Len(c) = 1 /\ c[1] \in ObjectPrototype, c[1],
                            Cardinality({e \in Elements : c \in countedClasses(e)}))],
     attributes |-> [k \in UNION {countedAttributes(e) : e \in Elements} |->
                      tally(FALSE, k[1],
                            Cardinality({e \in Elements : k \in countedAttributes(e)}))]]

\* table[key] || 0, as the comparisons count > 0 and count < lowestCount see
\* it: a string that is no number compares false, as 0 does.
countOf(table, key) ==
    IF key \in DOMAIN table /\ table[key].text = <<>> THEN table[key].n ELSE 0

\* The first of the candidates with the lowest positive count, <<>> if none.
rarest(candidates, table) ==
    LET ok == {i \in DOMAIN candidates : countOf(table, candidates[i]) > 0}
    IN IF ok = {} THEN <<>>
       ELSE candidates[CHOOSE i \in ok : \A j \in ok :
                \/ countOf(table, candidates[i]) < countOf(table, candidates[j])
                \/ (countOf(table, candidates[i]) = countOf(table, candidates[j]) /\ i <= j)]

bestClass(n) ==
    rarest([i \in DOMAIN classList(n) |-> escapeSelector(classList(n)[i])],
           buildFullDomStatistics.classes)

bestAttribute(n) ==
    LET names == SelectSeq(attributes(n), LAMBDA a : a \notin {"class", "style", "id"})
    IN rarest([i \in DOMAIN names |-> attrSelector(n, names[i])],
              buildFullDomStatistics.attributes)

Frag == [tag |-> "", id |-> <<>>, cls |-> <<>>, attr |-> <<>>, nth |-> 0]

\* The text of one compound fragment.
fragmentText(f) ==
    (IF f.tag = "" THEN <<>> ELSE <<f.tag>>)
    \o (IF f.id = <<>> THEN <<>> ELSE <<"#">> \o f.id)
    \o (IF f.cls = <<>> THEN <<>> ELSE <<".">> \o f.cls)
    \o (IF f.attr = <<>> THEN <<>>
        ELSE <<"[", f.attr[1], "=", "\"">> \o f.attr[2] \o <<"\"", "]">>)
    \o (IF f.nth = 0 THEN <<>> ELSE <<":nth-child(", ToString(f.nth), ")">>)

\* The text of a selector: its fragments joined by ' > '.
RECURSIVE selectorText(_)
selectorText(sel) ==
    IF sel = <<>> THEN <<>>
    ELSE IF Len(sel) = 1 THEN fragmentText(sel[1])
    ELSE fragmentText(sel[1]) \o <<" ", ">", " ">> \o selectorText(Tail(sel))

\* siblings.indexOf(current) + 1 among parent.children; the root element is
\* the first child of the document.
indexInParent(n) ==
    Cardinality({c \in Elements : nodes[c].par = nodes[n].par /\ c <= n})

matchesFragment(e, f) ==
    /\ f.tag = "" \/ nodes[e].tag = f.tag
    /\ f.id = <<>> \/ (hasAttribute(e, "id") /\ escapeSelector(getAttribute(e, "id")) = f.id)
    /\ f.cls = <<>> \/ f.cls \in countedClasses(e)
    /\ f.attr = <<>>
       \/ (hasAttribute(e, f.attr[1]) /\ escapeValue(getAttribute(e, f.attr[1])) = f.attr[2])
    /\ f.nth = 0 \/ indexInParent(e) = f.nth

RECURSIVE matches(_, _)
matches(e, sel) ==
    /\ matchesFragment(e, sel[Len(sel)])
    /\ \/ Len(sel) = 1
       \/ nodes[e].par # 0 /\ matches(nodes[e].par, SubSeq(sel, 1, Len(sel) - 1))

\* document.querySelectorAll(selector); the empty string is no selector.
querySelectorAll(sel) ==
    IF sel = <<>> THEN {} ELSE {e \in Elements : matches(e, sel)}

\* The base getSelector of the page: #id, else the rarest class, else the tag
\* with the rarest counted attribute, else the bare tag.
getSelector(n) ==
    IF Truthy(getAttribute(n, "id"))
    THEN <<[Frag EXCEPT !.id = escapeSelector(getAttribute(n, "id"))]>>
    ELSE IF bestClass(n) # <<>> THEN <<[Frag EXCEPT !.cls = bestClass(n)]>>
    ELSE IF bestAttribute(n) # <<>>
    THEN <<[Frag EXCEPT !.tag = nodes[n].tag, !.attr = bestAttribute(n)]>>
    ELSE <<[Frag EXCEPT !.tag = nodes[n].tag]>>

\* s is not empty and consists of characters of S.
AllOf(s, S) == s # <<>> /\ \A i \in DOMAIN s : s[i] \in S

\* The four patterns window.getSelector tests the base result against.
shouldForceHierarchical(result) ==
    LET alpha == Letters \cup LetterTags
        name == Letters \cup {"-", "_"}
        n == Len(result)
    IN \/ n >= 2 /\ result[1] = "." /\ AllOf(Tail(result), name)
       \/ \E k \in 2..(n - 2) :
             /\ AllOf(SubSeq(result, 1, k - 1), alpha)
             /\ result[k] = "[" /\ result[n] = "]"
             /\ \A i \in (k + 1)..(n - 1) : result[i] # "]"
       \/ AllOf(result, alpha)
       \/ \E k \in 2..(n - 1) :
             /\ AllOf(SubSeq(result, 1, k - 1), alpha)
             /\ result[k] = "."
             /\ AllOf(SubSeq(result, k + 1, n), name)

maxDepth == 3

\* The loop of generateContextualSelector; current = 0 is no parent element.
RECURSIVE contextualFrom(_, _, _)
contextualFrom(current, contextualSelector, depth) ==
    IF current = 0 \/ current = 1 \/ depth >= maxDepth THEN contextualSelector
    ELSE IF Truthy(getAttribute(current, "id"))
    THEN <<[Frag EXCEPT !.id = escapeSelector(getAttribute(current, "id"))]>>
         \o contextualSelector
    ELSE LET parentSelector == [Frag EXCEPT !.tag = nodes[current].tag,
                                            !.cls = bestClass(current)]
             matched == querySelectorAll(<<parentSelector>> \o contextualSelector)
             withIndex == IF Cardinality(matched) > 1
                          THEN [parentSelector EXCEPT !.nth = indexInParent(current)]
                          ELSE parentSelector
         IN contextualFrom(nodes[current].par, <<withIndex>> \o contextualSelector,
                           depth + 1)

generateContextualSelectorDeeper(element, baseSelector) ==
    contextualFrom(nodes[element].par, baseSelector, -1)

generateContextualSelector(element, baseSelector) ==
    contextualFrom(nodes[element].par, baseSelector, 0)

\* The loop of generateHierarchicalSelector.
RECURSIVE hierarchicalFrom(_, _)
hierarchicalFrom(current, path) ==
    IF current = 0 \/ current = 1 THEN path
    ELSE LET idSelector == <<[Frag EXCEPT !.id = escapeSelector(getAttribute(current, "id"))]>>
             withClass == [Frag EXCEPT !.tag = nodes[current].tag,
                                       !.cls = bestClass(current)]
             selector == IF (\A i \in DOMAIN fragmentText(withClass) :
                                 fragmentText(withClass)[i] # ".")
                            /\ attributes(current) # <<>>
                         THEN [withClass EXCEPT !.attr = bestAttribute(current)]
                         ELSE withClass
             matched == querySelectorAll(<<selector>> \o path)
             withIndex == IF Cardinality(matched) > 1 /\ nodes[current].par # 0
                          THEN [selector EXCEPT !.nth = indexInParent(current)]
                          ELSE selector
         IN IF Truthy(getAttribute(current, "id"))
               /\ Cardinality(querySelectorAll(idSelector)) = 1
            THEN idSelector \o path
            ELSE hierarchicalFrom(nodes[current].par, <<withIndex>> \o path)

generateHierarchicalSelector(element) == hierarchicalFrom(element, <<>>)

\* The base getSelector throws.
BaseFails == "base" \in faults

\* window.axe._selectorData is undefined: the synthesis, which reads it,
\* throws.
TableMissing == "table" \in faults

\* The elements for which the loop of generateHierarchicalSelector gets past
\* the test of the id.
RECURSIVE hierarchicalVisits(_)
hierarchicalVisits(current) ==
    IF current = 0 \/ current = 1 THEN {}
    ELSE IF /\ Truthy(getAttribute(current, "id"))
            /\ Cardinality(querySelectorAll(
                   <<[Frag EXCEPT !.id = escapeSelector(getAttribute(current, "id"))]>>)) = 1
    THEN {}
    ELSE {current} \cup hierarchicalVisits(nodes[current].par)

\* generateHierarchicalSelector throws: selectorData.classes is read for an
\* element with a class token and selectorData.attributes for one with an
\* attribute other than class, style and id, with selectorData undefined.
hierarchicalThrows(element) ==
    /\ TableMissing
    /\ \E e \in hierarchicalVisits(element) :
          \/ classList(e) # <<>>
          \/ \E i \in DOMAIN attributes(e) : attributes(e)[i] \notin {"class", "style", "id"}

\* window.getSelector(element) throws: nothing catches what the catch block
\* throws.
windowGetSelectorThrows(element) ==
    (BaseFails \/ TableMissing) /\ hierarchicalThrows(element)

\* window.getSelector(element)
windowGetSelector(element) ==
    IF windowGetSelectorThrows(element) THEN <<>>
    ELSE IF BaseFails \/ TableMissing THEN generateHierarchicalSelector(element)
    ELSE LET result == getSelector(element)
         IN IF shouldForceHierarchical(selectorText(result))
            THEN generateContextualSelector(element, result)
            ELSE result

(***************************************************************************)
(* XPath.  A path is the sequence of its steps /tag[...], root first.      *)
(***************************************************************************)
\* The variable count of getXPathArray; 0 is null or undefined.
siblingCount(n) ==
    LET previous == {s \in NodeIds : nodes[s].par = nodes[n].par /\ s < n}
        next == {s \in NodeIds : nodes[s].par = nodes[n].par /\ s > n}
        same == {s \in previous : nodes[s].type = 1 /\ nodes[s].tag = nodes[n].tag}
    IN IF nodes[n].par # 0 /\ previous # {}
       THEN (IF same = {} THEN 0 ELSE 1 + Cardinality(same))
       ELSE IF nodes[n].par # 0 /\ next # {} THEN 1
       ELSE 0

xpathElementAnyId(n) ==
    LET className == Str(getAttribute(n, "class"))
    IN [str |-> nodes[n].tag,
        id |-> Str(getAttribute(n, "id")),
        className |-> IF Trim(className) # <<>> THEN Head(SplitWs(className)) ELSE <<>>,
        count |-> IF siblingCount(n) > 1 THEN siblingCount(n) ELSE 0]

\* The entry getXPathArray pushes for an element.
xpathElement(n) ==
    LET id == escapeSelector(getAttribute(n, "id"))
        className == Str(getAttribute(n, "class"))
    IN [str |-> nodes[n].tag,
        id |-> IF Truthy(id) /\ Cardinality(querySelectorAll(<<[Frag EXCEPT !.id = id]>>)) = 1
               THEN getAttribute(n, "id") ELSE <<>>,
        className |-> IF Trim(className) # <<>> THEN Head(SplitWs(className)) ELSE <<>>,
        count |-> IF siblingCount(n) > 1 THEN siblingCount(n) ELSE 0]

RECURSIVE getXPathArray(_)
getXPathArray(n) ==
    (IF nodes[n].par # 0 THEN getXPathArray(nodes[n].par) ELSE <<>>)
    \o (IF nodes[n].type = 1 THEN <<xpathElement(n)>> ELSE <<>>)

\* One step per entry: [@id='...'], else [@class='...'], else [count], else
\* the bare tag; every entry adds its step to the steps before it.
xpathToString(xpathArray) ==
    [i \in DOMAIN xpathArray |->
        LET elm == xpathArray[i] IN
        IF Truthy(elm.id)
        THEN [tag |-> elm.str, id |-> elm.id, class |-> <<>>, position |-> 0]
        ELSE IF Truthy(elm.className)
        THEN [tag |-> elm.str, id |-> <<>>, class |-> elm.className, position |-> 0]
        ELSE [tag |-> elm.str, id |-> <<>>, class |-> <<>>,
              position |-> IF elm.count > 0 THEN elm.count ELSE 0]]

getXpath(n) == xpathToString(getXPathArray(n))

\* The elements and text nodes of the documents selectors and paths are
\* synthesized for.
SelectorProfiles ==
    { El("nav", NoAttrs),
      El("a", ("class" :> <<"n">>)),
      El("div", ("class" :> <<"a", " ", "b">>)),
      El("span", ("id" :> <<"u">>)),
      El("p", ("title" :> <<"t">>)),
      El("h1", ("class" :> <<"1", "n">>)),
      Tx(<<"x">>) }

InitSelectors ==
    /\ LoadDocument(Html, SelectorProfiles, MaxSelectorNodes)
    /\ faults \in { {}, {"base"}, {"table"} }
    /\ call = NoCall
    /\ ServerIdle

\* window.getSelector(element) called for an element of the loaded document.
GetSelector(n) ==
    /\ call.op = "none"
    /\ call' = [op |-> "getSelector", arg |-> n,
                ret |-> [selector |-> windowGetSelector(n),
                         text |-> selectorText(windowGetSelector(n)),
                         thrown |-> windowGetSelectorThrows(n)]]
    /\ UNCHANGED <<nodes, faults, serverVars>>

\* getXpath(element) called for an element of the loaded document.
GetXpath(n) ==
    /\ call.op = "none"
    /\ call' = [op |-> "getXpath", arg |-> n, ret |-> getXpath(n)]
    /\ UNCHANGED <<nodes, faults, serverVars>>

NextSelectors ==
    \/ \E n \in Elements : GetSelector(n)
    \/ \E n \in Elements : GetXpath(n)

SpecSelectors == InitSelectors /\ [][NextSelectors]_vars

\* The parent vectors of the chains of N nodes in which at most one node is
\* the sibling, not the child, of the node before it.
ChainVectors(N) ==
    {[i \in 1..N |-> IF i = k THEN i - 2 ELSE i - 1] : k \in {0} \cup 3..N}

\* The elements of the chains the contextual selector is built along.
ChainProfiles ==
    { El("div", NoAttrs),
      El("div", ("class" :> <<"c">>)),
      El("nav", ("id" :> <<"u">>)) }

InitChains ==
    /\ \E N \in 2..MaxChainNodes :
          \E p \in ChainVectors(N) :
              \E f \in [2..N -> ChainProfiles] : nodes = Document(p, Html, f)
    /\ faults = {}
    /\ call = NoCall
    /\ ServerIdle

NextChains == \E n \in Elements : GetSelector(n)

SpecChains == InitChains /\ [][NextChains]_vars

\* The documents paths alone are computed for: elements that share a tag, an
\* id or both, with and without classes, and text nodes between them.
PathProfiles ==
    { El("nav", NoAttrs),
      El("div", ("class" :> <<"a", " ", "b">>)),
      El("span", ("id" :> <<"u">>)),
      El("a", ("id" :> <<"u">>) @@ ("class" :> <<"n">>)),
      Tx(<<"x">>) }

InitPaths ==
    /\ LoadDocument(Html, PathProfiles, MaxPathNodes)
    /\ faults = {}
    /\ call = NoCall
    /\ ServerIdle

NextPaths == \E n \in Elements : GetXpath(n)

SpecPaths == InitPaths /\ [][NextPaths]_vars

(***************************************************************************)
(* The in-page extraction of extractAccessibleText.                        *)
(***************************************************************************)
\* One allowlist pattern: tag is "" for any tag; op is "" (tag only), "has"
\* ([attr]), "=" ([attr="val"]) or "*=" ([attr*="val"]).
Pat(tag, attr, op, val) == [tag |-> tag, attr |-> attr, op |-> op, val |-> val]

Tag(tag) == Pat(tag, "", "", <<>>)

Role(val) == Pat("", "role", "=", <<val>>)

\* The selectors array, in its order.
selectors ==
    << Pat("a", "href", "has", <<>>), Role("link"), Tag("button"), Tag("input"),
       Tag("select"), Tag("textarea"), Tag("fieldset"), Tag("table"), Tag("figure"),
       Tag("img"), Tag("object"), Tag("embed"), Tag("iframe"), Tag("audio"),
       Tag("video"), Tag("canvas"), Tag("svg"), Tag("math"), Tag("label"),
       Pat("div", "id", "*=", <<"pseudo">>), Pat("div", "role", "has", <<>>),
       Pat("span", "id", "has", <<>>), Pat("div", "id", "has", <<>>),
       Pat("", "aria-label", "has", <<>>), Pat("", "aria-labelledby", "has", <<>>),
       Pat("", "aria-hidden", "has", <<>>),
       Role("form"), Role("checkbox"), Role("radio"), Role("button"), Role("textbox"),
       Role("slider"), Role("progressbar"), Role("img"), Role("heading"),
       Role("group"), Role("region"), Role("alert"), Role("status"), Role("log"),
       Role("marquee"), Role("timer"), Role("columnheader"), Role("presentation"),
       Role("none"),
       Pat("", "contenteditable", "has", <<>>), Tag("custom-element"),
       Tag("my-autonomous-element"), Pat("", "is", "has", <<>>),
       Tag("xml:element"), Tag("xhtml:span") >>

\* Whether element e matches pattern p; [attr*="val"] holds when the value
\* contains val, a word standing for its characters.
matchesPattern(e, p) ==
    /\ p.tag = "" \/ nodes[e].tag = p.tag
    /\ CASE p.op = "has" -> hasAttribute(e, p.attr)
         [] p.op = "=" -> hasAttribute(e, p.attr) /\ getAttribute(e, p.attr) = p.val
         [] p.op = "*=" -> /\ hasAttribute(e, p.attr)
                           /\ \E i \in DOMAIN getAttribute(e, p.attr) :
                                 getAttribute(e, p.attr)[i] = p.val[1]
         [] OTHER -> TRUE

\* document.querySelectorAll(selector) for pattern i, in document order.
nodeList(i) == SortSet({e \in Elements : matchesPattern(e, selectors[i])})

\* The elements the two nested forEach loops visit, in order: for each
\* pattern in turn, its node list.
RECURSIVE visitsFrom(_)
visitsFrom(i) ==
    IF i > Len(selectors) THEN <<>>
    ELSE [k \in DOMAIN nodeList(i) |-> [pattern |-> i, element |-> nodeList(i)[k]]]
         \o visitsFrom(i + 1)

visits == visitsFrom(1)

\* element.outerHTML as a sequence of tokens; an instrumented element carries
\* the attribute data-a11y-el-exposed; img and input have no end tag.
RECURSIVE outerHTML(_), innerHTML(_), attributeHTML(_, _)
attributeHTML(n, names) ==
    IF names = <<>> THEN <<>>
    ELSE <<" ", Head(names), "=\"">> \o getAttribute(n, Head(names)) \o <<"\"">>
         \o attributeHTML(n, Tail(names))
innerHTML(kids) ==
    IF kids = <<>> THEN <<>> ELSE outerHTML(Head(kids)) \o innerHTML(Tail(kids))
outerHTML(n) ==
    IF nodes[n].type = 3 THEN nodes[n].data
    ELSE <<"<", nodes[n].tag>> \o attributeHTML(n, attributes(n))
         \o (IF n \in exposed THEN <<" ", "data-a11y-el-exposed", "=\"", "true", "\"">>
             ELSE <<>>)
         \o <<">">>
         \o (IF nodes[n].tag \in {"img", "input"} THEN <<>>
             ELSE innerHTML(childNodes(n)) \o <<"</", nodes[n].tag, ">">>)

\* value || undefined
OrUndefined(v) == IF Truthy(v) THEN v ELSE NULL

\* typeof window.f === 'function'
Available(f) == f \notin window.missing

\* The call of f for element e throws.
Throws(f, e) == Available(f) /\ f \in window.throwing /\ window.victim = e

GuardedCallsButPseudo == PageFunctions \ {"getPseudoElementContent"}

\* The in-page functions extractAccessibleText calls inside a try/catch.
GuardedCalls == PageFunctions

\* Whether the processing of element e ends in an exception that leaves the
\* forEach callback.
escapes(e) == \E f \in PageFunctions \ GuardedCalls : Throws(f, e)

xpathField(e) ==
    IF ~Available("getXpath") \/ Throws("getXpath", e) THEN <<>> ELSE getXpath(e)

selectorField(e) ==
    IF ~Available("getSelector") \/ Throws("getSelector", e) THEN <<>>
    ELSE selectorText(windowGetSelector(e))

accessibleTextField(e) ==
    IF ~Available("getAccessibleText") THEN <<>>
    ELSE IF Throws("getAccessibleText", e) THEN textContent(e)
    ELSE getAccessibleText(e, FALSE, StackLimit).v

\* pseudoBefore and pseudoAfter; NULL when the record has no such field.
pseudoFields(e) ==
    IF ~Available("getPseudoElementContent") \/ Throws("getPseudoElementContent", e)
    THEN [pseudoBefore |-> NULL, pseudoAfter |-> NULL]
    ELSE [pseudoBefore |-> OrUndefined(getPseudoElementContent(e).beforeContent),
          pseudoAfter |-> OrUndefined(getPseudoElementContent(e).afterContent)]

\* What the catch blocks log for element e.
logged(e) ==
    {f \o " function not available" : f \in {g \in GuardedCalls : Throws(g, e)}}

\* The record pushed for element e; node and pattern are not fields of the
\* record: they tell which element it was made for and by which pattern.
elementRecord(e, i, originalHTML) ==
    [node |-> e, pattern |-> i,
     element |-> originalHTML,
     tagName |-> nodes[e].tag,
     innerText |-> textContent(e),
     accessibleText |-> accessibleTextField(e),
     xpath |-> xpathField(e),
     selector |-> selectorField(e),
     role |-> OrUndefined(getAttribute(e, "role")),
     ariaLabel |-> OrUndefined(getAttribute(e, "aria-label")),
     ariaLabelledby |-> OrUndefined(getAttribute(e, "aria-labelledby")),
     href |-> OrUndefined(getAttribute(e, "href")),
     alt |-> OrUndefined(getAttribute(e, "alt")),
     pseudoBefore |-> pseudoFields(e).pseudoBefore,
     pseudoAfter |-> pseudoFields(e).pseudoAfter,
     placeholder |-> OrUndefined(getAttribute(e, "placeholder")),
     altText |-> OrUndefined(getAttribute(e, "alttext")),
     title |-> OrUndefined(getAttribute(e, "title"))]

(***************************************************************************)
(* The route POST /acctext, extractAccessibleText and the browser manager.  *)
(* pc is the position of the one request in flight.                        *)
(***************************************************************************)
\* The script tags createPageWithScripts adds to a page.
NumScripts == 7

\* The place of enhanced-selector.js among them: the script that sets
\* window.axe._selectorData when it is loaded.
SelectorScript == 6

\* contentType.includes('text/html'), a word standing for its characters
includesTextHtml(contentType) == \E i \in DOMAIN contentType : contentType[i] = "text/html"

ValidBodyUntrimmed(body) == body.type = "string" /\ Truthy(body.text)

\* !(!htmlCode || typeof htmlCode !== 'string' || htmlCode.trim().length === 0)
ValidBody(body) ==
    /\ body.type = "string"
    /\ Truthy(body.text)
    /\ Len(Trim(body.text)) # 0

\* The Content-Type headers and bodies of the requests; a body of type
\* "undefined" is a missing one, "object" one that a parser turned into an
\* object, <<"markup">> the markup of the document in nodes: a document of
\* ServerProfiles under the plain text/html header, the empty document
\* under any other.
ContentTypes ==
    { <<>>, <<"text/html">>, <<"text/html", ";", " ", "charset=utf-8">>,
      <<"TEXT/HTML">>, <<"application/json">>, <<"text/plain">> }

Bodies ==
    { [type |-> "undefined", text |-> <<>>], [type |-> "object", text |-> <<>>],
      [type |-> "string", text |-> <<>>], [type |-> "string", text |-> <<" ", "\n", " ">>],
      [type |-> "string", text |-> <<"markup">>] }

\* The elements and text nodes of the documents sent for extraction.
ServerProfiles ==
    { El("input", ("id" :> <<"a">>) @@ ("title" :> <<"t">>)),
      El("label", ("for" :> <<"a">>)),
      [El("div", ("id" :> <<"pseudo">>) @@ ("role" :> <<"button">>)
                 @@ ("aria-label" :> <<"x">>)) EXCEPT !.bc = <<"\"", "b", "\"">>],
      El("p", ("class" :> <<"a", " ", "constructor">>)),
      Tx(<<"x">>) }

\* Which in-page functions are missing from window and which throw, for one
\* element of the document.
Windows ==
    { [missing |-> m, throwing |-> {}, victim |-> 0] :
          m \in { {}, {"getXpath", "getSelector"},
                  {"getAccessibleText", "getPseudoElementContent"} } }
    \cup { [missing |-> {}, throwing |-> PageFunctions, victim |-> e] : e \in Elements \ {1} }

InitServer ==
    /\ \E ct \in ContentTypes :
         \E b \in Bodies :
            /\ request = [contentType |-> ct, body |-> b]
            /\ IF ct = <<"text/html">> /\ b.text = <<"markup">>
               THEN LoadDocument(Html, ServerProfiles, MaxServerNodes)
               ELSE nodes = <<Html>>
    /\ window \in Windows
    /\ faults = {}
    /\ call = NoCall
    /\ pc = "idle" /\ browser = FALSE /\ page = "none" /\ scripts = 0 /\ visit = 1
    /\ processedElements = {} /\ exposed = {} /\ elementsArray = <<>>
    /\ console = {} /\ reply = NoReply
    /\ axe = NoTable /\ manager = NoManager

Goto(to) ==
    /\ pc' = to
    /\ UNCHANGED <<nodes, faults, call, window, axe, manager, request, browser, page, scripts, visit,
                   processedElements, exposed, elementsArray, console, reply>>

Send(status, elements) ==
    /\ pc' = "replied"
    /\ reply' = [status |-> status, elements |-> elements]
    /\ UNCHANGED <<nodes, faults, call, window, axe, manager, request, browser, page, scripts, visit,
                   processedElements, exposed, elementsArray, console>>

\* The handler's Content-Type check.
RejectContentType ==
    /\ pc = "idle"
    /\ ~includesTextHtml(request.contentType)
    /\ Send(400, <<>>)

\* The handler's body check.
RejectBody ==
    /\ pc = "idle"
    /\ includesTextHtml(request.contentType)
    /\ ~ValidBody(request.body)
    /\ Send(400, <<>>)

\* The handler calls extractAccessibleText(htmlCode).
Extract ==
    /\ pc = "idle"
    /\ includesTextHtml(request.contentType)
    /\ ValidBody(request.body)
    /\ Goto("init")

\* BrowserManager.init
InitBrowser ==
    /\ pc = "init"
    /\ pc' = "newPage"
    /\ browser' = TRUE
    /\ UNCHANGED <<nodes, faults, call, window, axe, manager, request, page, scripts, visit,
                   processedElements, exposed, elementsArray, console, reply>>

\* chromium.launch rejects.
LaunchFails == pc = "init" /\ Goto("caught")

\* this.browser.newPage()
NewPage ==
    /\ pc = "newPage"
    /\ pc' = "setContent"
    /\ page' = "open"
    /\ UNCHANGED <<nodes, faults, call, window, axe, manager, request, browser, scripts, visit,
                   processedElements, exposed, elementsArray, console, reply>>

NewPageFails == pc = "newPage" /\ Goto("caught")

\* page.setContent(html)
SetContent == pc = "setContent" /\ Goto("scripts")

SetContentFails == pc = "setContent" /\ Goto("caught")

\* One page.addScriptTag call.
AddScriptTag ==
    /\ pc = "scripts"
    /\ scripts < NumScripts
    /\ scripts' = scripts + 1
    /\ axe' = IF scripts' = SelectorScript
              THEN [set |-> TRUE, data |-> buildFullDomStatistics]
              ELSE axe
    /\ UNCHANGED <<nodes, faults, call, window, manager, request, pc, browser, page, visit,
                   processedElements, exposed, elementsArray, console, reply>>

\* readFileSync or addScriptTag throws.
AddScriptTagFails == pc = "scripts" /\ scripts < NumScripts /\ Goto("caught")

\* The verification evaluate; createPageWithScripts returns the page and
\* extractAccessibleText enters its try block.
VerifyFunctions == pc = "scripts" /\ scripts = NumScripts /\ Goto("evaluate")

VerifyFunctionsFails == pc = "scripts" /\ scripts = NumScripts /\ Goto("caught")

alreadyProcessedNever(e) == FALSE

\* processedElements.has(element)
alreadyProcessed(e) == e \in processedElements

\* A visit of an element that an earlier visit processed.
SkipDuplicate ==
    /\ pc = "evaluate"
    /\ visit <= Len(visits)
    /\ alreadyProcessed(visits[visit].element)
    /\ visit' = visit + 1
    /\ UNCHANGED <<nodes, faults, call, window, axe, manager, request, pc, browser, page, scripts,
                   processedElements, exposed, elementsArray, console, reply>>

\* The body of the forEach callback for an element not yet processed.
ProcessElement ==
    /\ pc = "evaluate"
    /\ visit <= Len(visits)
    /\ ~alreadyProcessed(visits[visit].element)
    /\ LET e == visits[visit].element
           originalHTML == outerHTML(e)
       IN /\ processedElements' = processedElements \cup {e}
          /\ exposed' = exposed \cup {e}
          /\ console' = console \cup logged(e)
          /\ IF escapes(e)
             THEN /\ pc' = "finallyThrown"
                  /\ UNCHANGED <<visit, elementsArray>>
             ELSE /\ elementsArray' =
                        Append(elementsArray, elementRecord(e, visits[visit].pattern, originalHTML))
                  /\ visit' = visit + 1
                  /\ pc' = pc
    /\ UNCHANGED <<nodes, faults, call, window, axe, manager, request, browser, page, scripts, reply>>

\* page.evaluate resolves with elementsArray.
Return == pc = "evaluate" /\ visit > Len(visits) /\ Goto("finally")

\* page.evaluate rejects: the page crashed or was closed.
EvaluateFails == pc = "evaluate" /\ Goto("finallyThrown")

\* finally { await page.close(); }
ClosePage ==
    /\ pc \in {"finally", "finallyThrown"}
    /\ pc' = IF pc = "finally" THEN "send" ELSE "caught"
    /\ page' = "closed"
    /\ UNCHANGED <<nodes, faults, call, window, axe, manager, request, browser, scripts, visit,
                   processedElements, exposed, elementsArray, console, reply>>

\* reply.send({ elements })
SendElements == pc = "send" /\ Send(200, elementsArray)

\* The handler's catch block.
SendError == pc = "caught" /\ Send(500, <<>>)

NextServer ==
    \/ RejectContentType
    \/ RejectBody
    \/ Extract
    \/ InitBrowser
    \/ LaunchFails
    \/ NewPage
    \/ NewPageFails
    \/ SetContent
    \/ SetContentFails
    \/ AddScriptTag
    \/ AddScriptTagFails
    \/ VerifyFunctions
    \/ VerifyFunctionsFails
    \/ SkipDuplicate
    \/ ProcessElement
    \/ Return
    \/ EvaluateFails
    \/ ClosePage
    \/ SendElements
    \/ SendError

SpecServer == InitServer /\ [][NextServer]_vars

(***************************************************************************)
(* Documents of images, buttons, hidden elements and inputs.               *)
(***************************************************************************)
\* The elements and text nodes of the documents of images and buttons.
ImageProfiles ==
    { El("img", ("alt" :> <<>>) @@ ("title" :> <<"t">>)),
      El("img", ("alt" :> <<" ", "G", " ", " ", "o", " ">>) @@ ("title" :> <<"t">>)),
      El("img", ("title" :> <<" ", "t">>)),
      El("img", NoAttrs),
      El("button", ("title" :> <<"b">>)),
      El("span", ("aria-hidden" :> <<"true">>) @@ ("aria-label" :> <<"h">>)),
      Tx(<<" ">>),
      Tx(<<" ", "x", " ">>) }

InitImages ==
    /\ LoadDocument(Html, ImageProfiles, MaxImageNodes)
    /\ faults = {}
    /\ call = NoCall
    /\ ServerIdle

SpecImages == InitImages /\ [][Next]_vars

\* The elements and text nodes of the documents with elements hidden by style.
HiddenProfiles ==
    { [El("span", ("aria-label" :> <<"x">>)) EXCEPT !.disp = "none"],
      [El("span", ("title" :> <<"t">>)) EXCEPT !.vis = "hidden"],
      [El("div", NoAttrs) EXCEPT !.disp = "contents"],
      El("button", ("title" :> <<"b">>)),
      El("img", ("alt" :> <<"i">>)),
      Tx(<<" ", "x", " ">>) }

InitHidden ==
    /\ LoadDocument(Html, HiddenProfiles, MaxHiddenNodes)
    /\ faults = {}
    /\ call = NoCall
    /\ ServerIdle

SpecHidden == InitHidden /\ [][Next]_vars

\* The type attributes of the input elements resolved; NULL is no attribute.
InputTypes ==
    { NULL, <<"submit">>, <<"SUBMIT">>, <<"reset">>, <<"button">>, <<"image">>,
      <<"range">>, <<"text">>, <<"checkbox">>, <<"file">> }

\* The attributes an input may carry besides type and value, with the value
\* each has when present.
InputAttributes ==
    ("alt" :> <<"a">>) @@ ("aria-valuetext" :> <<"vt">>) @@ ("aria-valuenow" :> <<"5">>)
    @@ ("aria-placeholder" :> <<"ap">>) @@ ("placeholder" :> <<" ", "p">>)
    @@ ("title" :> <<"t">>)

\* An input element with the given type and value attributes (NULL: none)
\* and the attributes named in present.
InputElement(type, value, present) ==
    El("input",
       [a \in present \cup (IF type = NULL THEN {} ELSE {"type"})
                      \cup (IF value = NULL THEN {} ELSE {"value"}) |->
           IF a = "type" THEN type
           ELSE IF a = "value" THEN value
           ELSE InputAttributes[a]])

WithId(e) == [e EXCEPT !.at = e.at @@ ("id" :> <<"a">>)]

\* The documents of one input: alone, after a label that names it with for,
\* or inside a label.
InputDocuments(input) ==
    { Document(<<0, 1>>, Html, <<Html, input>>),
      Document(<<0, 1, 2, 1>>, Html,
               <<Html, El("label", ("for" :> <<"a">>)), Tx(<<" ", "L", " ">>), WithId(input)>>),
      Document(<<0, 1, 2, 2>>, Html,
               <<Html, El("label", NoAttrs), Tx(<<"L", " ">>), input>>) }

InitInputs ==
    /\ \E type \in InputTypes :
         \E value \in {NULL, <<>>, <<"v">>} :
            \E present \in SUBSET DOMAIN InputAttributes :
               nodes \in InputDocuments(InputElement(type, value, present))
    /\ faults = {}
    /\ call = NoCall
    /\ ServerIdle

SpecInputs == InitInputs /\ [][Next]_vars

\* The role attributes of the elements resolved; NULL is no attribute.
Roles ==
    { NULL, <<"button">>, <<"BUTTON">>, <<"heading">>, <<"group">>, <<"region">>,
      <<"link">>, <<"LINK">>, <<"textbox">>, <<"searchbox">>, <<"slider">>,
      <<"spinbutton">>, <<"progressbar">>, <<"img">>, <<"tab">>,
      <<"button", " ", "link">> }

\* The attributes an element with a role may carry, with the value each has
\* when present.
RoleAttributes ==
    ("alt" :> <<"al">>) @@ ("aria-valuetext" :> <<"vt">>) @@ ("aria-valuenow" :> <<"5">>)
    @@ ("aria-placeholder" :> <<"ap", " ">>) @@ ("placeholder" :> <<"ph">>)
    @@ ("title" :> <<"ti">>)

RoleElement(tag, role, present) ==
    El(tag, [a \in present \cup (IF role = NULL THEN {} ELSE {"role"}) |->
                IF a = "role" THEN role ELSE RoleAttributes[a]])

\* The documents of one element with a role: a child of the root or inside a
\* label with text, and, unless it is an input or an img, without a child,
\* with a text or with white space.
RoleDocuments(e) ==
    LET kids == IF e.tag \in {"input", "img"} THEN {<<>>}
                ELSE {<<>>, <<Tx(<<" ", "x">>)>>, <<Tx(<<" ">>)>>}
    IN { Document(<<0, 1>> \o [i \in DOMAIN k |-> 2], Html, <<Html, e>> \o k) : k \in kids }
       \cup
       { Document(<<0, 1, 2, 2>> \o [i \in DOMAIN k |-> 4], Html,
                  <<Html, El("label", NoAttrs), Tx(<<"L", " ">>), e>> \o k) : k \in kids }

InitRoles ==
    /\ \E tag \in {"input", "img", "div", "iframe"} :
         \E role \in Roles :
            \E present \in SUBSET DOMAIN RoleAttributes :
               nodes \in RoleDocuments(RoleElement(tag, role, present))
    /\ faults = {}
    /\ call = NoCall
    /\ ServerIdle

SpecRoles == InitRoles /\ [][Next]_vars

\* The elements nested below the button.
LevelProfiles ==
    { El("span", NoAttrs),
      El("span", ("role" :> <<"group">>)),
      El("span", ("aria-labelledby" :> <<"z">>)),
      El("span", ("aria-label" :> <<"l">>)) }

\* The text below the element of level k.
LevelText(k) == Tx(<<ToString(k)>>)

\* A button below the root and L elements f[1], ..., f[L] nested in it, each
\* the child of the one before and each followed by its nested element, if
\* any, and then by a text node that tells its level.  At most one of the
\* nested elements has aria-labelledby.
Nested(L, f) ==
    [i \in 1..(2 * L + 2) |->
        IF i = 1 THEN Html
        ELSE IF i = 2 THEN [El("button", NoAttrs) EXCEPT !.par = 1]
        ELSE IF i <= L + 2 THEN [f[i - 2] EXCEPT !.par = i - 1]
        ELSE [LevelText(2 * L + 3 - i) EXCEPT !.par = 2 * L + 5 - i]]

InitLevels ==
    /\ \E L \in 1..MaxLevels :
          \E f \in [1..L -> LevelProfiles] :
              /\ Cardinality({k \in 1..L : "aria-labelledby" \in DOMAIN f[k].at}) <= 1
              /\ nodes = Nested(L, f)
    /\ faults = {}
    /\ call = NoCall
    /\ ServerIdle

SpecLevels == InitLevels /\ [][Next]_vars

\* What the calls on the browserManager leave alone.
besidesManager ==
    <<nodes, faults, call, window, request, pc, browser, page, scripts,
      visit, processedElements, exposed, elementsArray, console, reply, axe>>

\* init() up to its await: the test of this.browser; with a browser the call
\* goes on, without one puppeteer.launch is called and awaited.
ManagerInit(c) ==
    /\ manager.at[c] = "idle"
    /\ manager' = [manager EXCEPT !.at[c] = IF manager.browser = 0 THEN "launching"
                                            ELSE "initialized"]
    /\ UNCHANGED besidesManager

\* The launch a call awaits resolves with a new browser, which the call
\* assigns to this.browser.
ManagerLaunched(c) ==
    /\ manager.at[c] = "launching"
    /\ LET instance == Cardinality(manager.launched) + 1
       IN manager' = [manager EXCEPT !.launched = @ \cup {instance},
                                     !.browser = instance,
                                     !.at[c] = "initialized"]
    /\ UNCHANGED besidesManager

\* The launch a call awaits is rejected: the call fails.
ManagerLaunchFails(c) ==
    /\ manager.at[c] = "launching"
    /\ manager' = [manager EXCEPT !.at[c] = "failed"]
    /\ UNCHANGED besidesManager

\* this.browser!.newPage() after init(): a TypeError when close() has set
\* this.browser to null in between.
ManagerNewPage(c) ==
    /\ manager.at[c] = "initialized"
    /\ manager' = [manager EXCEPT !.at[c] = IF manager.browser = 0 THEN "failed"
                                            ELSE "page"]
    /\ UNCHANGED besidesManager

\* close() up to its await: without a browser it returns, with one it calls
\* browser.close(), which shuts that instance down.
ManagerClose ==
    /\ manager.at[0] = "idle"
    /\ manager' = IF manager.browser = 0
                  THEN [manager EXCEPT !.at[0] = "closed"]
                  ELSE [manager EXCEPT !.at[0] = "closing",
                                       !.held = manager.browser,
                                       !.closed = @ \cup {manager.browser}]
    /\ UNCHANGED besidesManager

\* close() after its await: this.browser = null.
ManagerClosed ==
    /\ manager.at[0] = "closing"
    /\ manager' = [manager EXCEPT !.at[0] = "closed", !.browser = 0, !.held = 0]
    /\ UNCHANGED besidesManager

InitManager ==
    /\ nodes = <<Html>>
    /\ faults = {}
    /\ call = NoCall
    /\ ServerIdle

NextManager ==
    \/ \E c \in Callers : ManagerInit(c)
    \/ \E c \in Callers : ManagerLaunched(c)
    \/ \E c \in Callers : ManagerLaunchFails(c)
    \/ \E c \in Callers : ManagerNewPage(c)
    \/ ManagerClose
    \/ ManagerClosed

SpecManager == InitManager /\ [][NextManager]_vars

\* The node e placed under parent p.
Under(p, e) == [e EXCEPT !.par = p]

\* The labels that name the id "a" with for, as children of the root: none,
\* one without text, one with text, or two with different texts.
ExplicitLabels(kind) ==
    LET for == El("label", ("for" :> <<"a">>))
    IN CASE kind = "none" -> <<>>
         [] kind = "empty" -> <<Under(1, for)>>
         [] kind = "text" -> <<Under(1, for), Under(2, Tx(<<" ", "E", " ">>))>>
         [] kind = "two" -> <<Under(1, for), Under(2, Tx(<<"E">>)),
                              Under(1, for), Under(4, Tx(<<"F">>))>>

\* The control, whose first node has index k: a child of the root, inside a
\* label that also holds text and a textarea with text, or inside a label
\* nested in another label.
Placed(control, kind, k) ==
    CASE kind = "none" -> <<Under(1, control)>>
      [] kind = "label" ->
           <<Under(1, El("label", NoAttrs)), Under(k, Tx(<<" ", "I">>)),
             Under(k, El("textarea", NoAttrs)), Under(k + 2, Tx(<<"T">>)),
             Under(k, control), Under(k, Tx(<<"J", " ">>))>>
      [] kind = "nested" ->
           <<Under(1, El("label", NoAttrs)), Under(k, Tx(<<"O">>)),
             Under(k, El("label", NoAttrs)), Under(k + 2, Tx(<<"I">>)),
             Under(k + 2, control)>>

\* The form controls looked up: with the id "a", with an empty id, without id.
LabelledControls ==
    { El(tag, at) : tag \in {"input", "select", "textarea"},
                    at \in { NoAttrs, ("id" :> <<>>), ("id" :> <<"a">>) } }

InitLabels ==
    /\ \E control \in LabelledControls :
         \E explicit \in {"none", "empty", "text", "two"} :
            \E implicit \in {"none", "label", "nested"} :
               nodes = <<Html>> \o ExplicitLabels(explicit)
                       \o Placed(control, implicit, 2 + Len(ExplicitLabels(explicit)))
    /\ faults = {}
    /\ call = NoCall
    /\ ServerIdle

\* getAssociatedLabel(element) called for an element of the loaded document.
AssociatedLabel(n) ==
    /\ call.op = "none"
    /\ call' = [op |-> "getAssociatedLabel", arg |-> n, ret |-> getAssociatedLabel(n)]
    /\ UNCHANGED <<nodes, faults, serverVars>>

NextLabels == \E n \in Elements : AssociatedLabel(n)

SpecLabels == InitLabels /\ [][NextLabels]_vars

(***************************************************************************)
(* The code analysis service.                                              *)
(***************************************************************************)
\* The segments of code between its line breaks, current being the segment
\* read so far: a line feed is a break, a carriage return before it belongs
\* to the break, and a carriage return alone is a break when breakAtCr.
RECURSIVE splitAt(_, _, _)
splitAt(code, current, breakAtCr) ==
    IF code = <<>> THEN <<current>>
    ELSE IF Head(code) = "\n" THEN <<current>> \o splitAt(Tail(code), <<>>, breakAtCr)
    ELSE IF Head(code) = "\r" /\ Len(code) >= 2 /\ code[2] = "\n"
         THEN <<current>> \o splitAt(Tail(Tail(code)), <<>>, breakAtCr)
    ELSE IF Head(code) = "\r" /\ breakAtCr
         THEN <<current>> \o splitAt(Tail(code), <<>>, breakAtCr)
    ELSE splitAt(Tail(code), Append(current, Head(code)), breakAtCr)

splitLinesAtCr(code) == splitAt(code, <<>>, TRUE)

\* code.split(/\r?\n/)
splitLines(code) == splitAt(code, <<>>, FALSE)

\* analyzeSnippet(code); code is a record with the type of the argument and,
\* for a string, its text.
analyzeSnippet(code) ==
    IF code.type # "string"
    THEN [thrown |-> TRUE, lines |-> 0, chars |-> 0, is_empty |-> FALSE]
    ELSE [thrown |-> FALSE,
          lines |-> Len(splitLines(code.text)),
          chars |-> Len(code.text),
          is_empty |-> Len(Trim(code.text)) = 0]

\* The strings of at most n characters of alphabet.
RECURSIVE StringsUpTo(_, _)
StringsUpTo(n, alphabet) ==
    IF n = 0 THEN {<<>>}
    ELSE LET shorter == StringsUpTo(n - 1, alphabet)
         IN shorter \cup {Append(t, c) : t \in shorter, c \in alphabet}

\* The arguments analyzeSnippet is called with.
Codes ==
    {[type |-> "string", text |-> t] : t \in StringsUpTo(MaxCodeLen, {"a", " ", "\n", "\r", "\t"})}
    \cup {[type |-> t, text |-> <<>>] : t \in {"number", "undefined", "object"}}

InitAnalyze ==
    /\ nodes = <<Html>>
    /\ faults = {}
    /\ call = NoCall
    /\ window = AllLoaded
    /\ request \in {[contentType |-> <<"application/json">>, body |-> c] : c \in Codes}
    /\ pc = "idle" /\ browser = FALSE /\ page = "none" /\ scripts = 0 /\ visit = 1
    /\ processedElements = {} /\ exposed = {} /\ elementsArray = <<>>
    /\ console = {} /\ reply = NoReply
    /\ axe = NoTable /\ manager = NoManager

\* analyzeSnippet called with the code of the request.
Analyze ==
    /\ call.op = "none"
    /\ call' = [op |-> "analyzeSnippet", arg |-> 0, ret |-> analyzeSnippet(request.body)]
    /\ UNCHANGED <<nodes, faults, serverVars>>

NextAnalyze == Analyze

SpecAnalyze == InitAnalyze /\ [][NextAnalyze]_vars

(***************************************************************************)
(* Properties of the accessible name resolver.                             *)
(***************************************************************************)
Resolved == call.op = "getAccessibleText"

ResolvedElement == Resolved /\ call.arg \in Elements

\* aria-hidden="true" or role presentation/none.
AriaIgnored(n) ==
    \/ ("aria-hidden" \in DOMAIN nodes[n].at /\ nodes[n].at["aria-hidden"] = <<"true">>)
    \/ ("role" \in DOMAIN nodes[n].at
        /\ nodes[n].at["role"] \in {<<"presentation">>, <<"none">>})

\* Hidden by computed style.
StyleIgnored(n) == nodes[n].disp = "none" \/ nodes[n].vis = "hidden"

Ignored(n) == AriaIgnored(n) \/ StyleIgnored(n)

\* The words of a string joined by single spaces: its whitespace-normal form.
Normal(s) == JoinSp(SplitWs(s))

\* The elements an aria-labelledby value names: each token once, in the order
\* of its first occurrence, and for each token every element with that id.
RECURSIVE C1_RefsFrom(_, _)
C1_RefsFrom(tokens, i) ==
    IF i > Len(tokens) THEN <<>>
    ELSE (IF \E j \in 1..(i - 1) : tokens[j] = tokens[i] THEN <<>>
          ELSE SortSet({e \in Elements :
                          "id" \in DOMAIN nodes[e].at /\ nodes[e].at["id"] = tokens[i]}))
         \o C1_RefsFrom(tokens, i + 1)

C1_Refs(n) ==
    IF "aria-labelledby" \in DOMAIN nodes[n].at
    THEN C1_RefsFrom(SplitWs(nodes[n].at["aria-labelledby"]), 1)
    ELSE <<>>

C1_NamesInContext(refs) ==
    [k \in 1..Len(refs) |-> getAccessibleText(refs[k], TRUE, StackLimit).v]

\* C1: the name of a non-ignored element whose aria-labelledby resolves to at
\* least one element is the whitespace-normalized, space-joined concatenation
\* of the names of the referenced elements computed in labelledby context, in
\* token order, duplicate tokens counted once, every element sharing an id
\* included, dangling tokens contributing nothing.
C1_LabelledbyConcatenation ==
    (ResolvedElement /\ ~Ignored(call.arg) /\ C1_Refs(call.arg) # <<>>)
        => call.ret.v = Normal(JoinSp(C1_NamesInContext(C1_Refs(call.arg))))

C1_Witness ==
    /\ ResolvedElement /\ ~Ignored(call.arg)
    /\ Len(SplitWs(getAttribute(call.arg, "aria-labelledby"))) = 4
    /\ Len(C1_Refs(call.arg)) >= 3
    /\ \E i, j \in 1..Len(C1_Refs(call.arg)) :
          /\ i < j
          /\ getAttribute(C1_Refs(call.arg)[i], "id") = <<"b">>
          /\ getAttribute(C1_Refs(call.arg)[j], "id") = <<"a">>
          /\ C1_NamesInContext(C1_Refs(call.arg))[i] # <<>>
          /\ C1_NamesInContext(C1_Refs(call.arg))[j] # <<>>

\* C2 (as claimed): whenever the aria-labelledby attribute exists on a
\* non-ignored element, the labelledby result is the name, even when the
\* attribute value is empty; there is no fall through to aria-label, native
\* semantics or title.
C2_LabelledbyAuthoritative ==
    (ResolvedElement /\ ~Ignored(call.arg) /\ hasAttribute(call.arg, "aria-labelledby"))
        => call.ret.v = Normal(JoinSp(C1_NamesInContext(C1_Refs(call.arg))))

C4_AriaLabel ==
    (/\ ResolvedElement /\ ~Ignored(call.arg)
     /\ ~hasAttribute(call.arg, "aria-labelledby")
     /\ hasAttribute(call.arg, "aria-label")
     /\ Normal(nodes[call.arg].at["aria-label"]) # <<>>)
        => call.ret.v = Normal(nodes[call.arg].at["aria-label"])

C4_Witness ==
    /\ ResolvedElement /\ ~Ignored(call.arg)
    /\ ~hasAttribute(call.arg, "aria-labelledby")
    /\ Truthy(getAttribute(call.arg, "aria-label"))
    /\ getAttribute(call.arg, "aria-label") # Normal(getAttribute(call.arg, "aria-label"))
    /\ Trim(textContent(call.arg)) # <<>>
    /\ call.ret.v = <<"x", " ", "y">>

\* C5: every call returns (the nesting of calls stays within the depth a
\* finite document allows), at most one aria-labelledby is followed on any
\* path of nested calls, and a call made in labelledby context follows none.
C5_Terminates ==
    Resolved =>
        /\ ~call.ret.cut
        /\ call.ret.lb <= 1
        /\ LET r == getAccessibleText(call.arg, TRUE, StackLimit)
           IN ~r.cut /\ r.lb = 0

\* A mutual reference: the resolved element names b, and b names it back.
C5_Witness ==
    /\ ResolvedElement /\ ~Ignored(call.arg)
    /\ \E k \in 1..Len(C1_Refs(call.arg)) :
          LET b == C1_Refs(call.arg)[k]
          IN /\ b # call.arg /\ ~Ignored(b)
             /\ \E m \in 1..Len(C1_Refs(b)) : C1_Refs(b)[m] = call.arg
    /\ call.ret.lb = 1

\* The element is a text field whose label lookup is reached: no ignore, no
\* aria-labelledby or aria-label, no role, an id.
C6_LabelLookupReached(n) ==
    /\ nodes[n].tag \in {"input", "textarea"}
    /\ ~Ignored(n)
    /\ DOMAIN nodes[n].at \subseteq {"id", "title"}
    /\ "id" \in DOMAIN nodes[n].at /\ nodes[n].at["id"] # <<>>

\* What the catch block returns: the raw text content when it is not empty,
\* else the title, whitespace-normalized.
C6_PlainText(n) ==
    Normal(IF textContent(n) # <<>> THEN textContent(n)
           ELSE IF "title" \in DOMAIN nodes[n].at THEN nodes[n].at["title"] ELSE <<>>)

\* The first element carrying each id named by aria-labelledby.
C6_FirstRefs(n) ==
    LET refs == C1_Refs(n)
    IN SelectSeq(refs, LAMBDA e : \A k \in 1..Len(refs) :
                    nodes[refs[k]].at["id"] = nodes[e].at["id"] => e <= refs[k])

\* C6 (as claimed): the call never ends in an exception; whenever a step of
\* the resolution throws (here: the style query, the id lookup or the label
\* lookup) the call returns the normalized text content, or the title when
\* the text content is empty; null and non-elements give the empty string.
C6_AnyThrowFallsBack ==
    Resolved =>
        /\ ~call.ret.thrown
        /\ call.arg \notin Elements => call.ret.v = <<>>
        /\ (/\ call.arg \in Elements
            /\ \/ "style" \in faults /\ ~AriaIgnored(call.arg)
               \/ "qsa" \in faults /\ ~Ignored(call.arg) /\ C1_Refs(call.arg) # <<>>
               \/ "label" \in faults /\ C6_LabelLookupReached(call.arg))
              => call.ret.v = C6_PlainText(call.arg)

\* C6 (amended): the call never ends in an exception and null and
\* non-elements give the empty string.  A throwing label lookup reaches the
\* catch block: the call returns the normalized text content, or the title
\* when the text content is empty.  A throwing style query is absorbed by the
\* ignore check: the element counts as not hidden by style and resolution
\* goes on.  A throwing id lookup is absorbed by the labelledby step: each
\* token resolves to the first element with that id, or to nothing when the
\* single-element lookup throws as well.
C6_Degrades ==
    Resolved =>
        /\ ~call.ret.thrown
        /\ call.arg \notin Elements => call.ret.v = <<>>
        /\ (call.arg \in Elements /\ "label" \in faults
                /\ C6_LabelLookupReached(call.arg))
              => call.ret.v = C6_PlainText(call.arg)
        /\ (call.arg \in Elements /\ "style" \in faults
                /\ ~AriaIgnored(call.arg) /\ DOMAIN nodes[call.arg].at = {"aria-label"})
              => call.ret.v = Normal(nodes[call.arg].at["aria-label"])
        /\ (call.arg \in Elements /\ "qsa" \in faults
                /\ ~Ignored(call.arg) /\ C1_Refs(call.arg) # <<>>)
              => call.ret.v =
                    IF "byId" \in faults THEN <<>>
                    ELSE Normal(JoinSp(C1_NamesInContext(C6_FirstRefs(call.arg))))

\* A text area with text inside and a title, resolved while the label lookup
\* throws.
C6_Witness ==
    /\ Resolved /\ call.arg \in Elements
    /\ "label" \in faults
    /\ C6_LabelLookupReached(call.arg)
    /\ Trim(textContent(call.arg)) # <<>>
    /\ hasAttribute(call.arg, "title")
    /\ call.ret.v = <<"x">>

(***************************************************************************)
(* Properties of the selector and XPath synthesizers.                      *)
(***************************************************************************)
\* C7: the selector window.getSelector returns for an element of the document
\* matches, queried against the same document, a set of elements that
\* contains that element.
C7_SelectorMatchesTarget ==
    (call.op = "getSelector" /\ ~call.ret.thrown) =>
        call.arg \in querySelectorAll(call.ret.selector)

\* C8: window.getSelector never returns the empty string for an element of
\* the document, the document root element included.
C8_SelectorNeverEmpty ==
    (call.op = "getSelector" /\ ~call.ret.thrown) => call.ret.text # <<>>

\* Two elements with the same parent, the same tag and the same class
\* attribute, neither with an id.
C9_Twins(x, y) ==
    /\ x # y
    /\ nodes[x].par = nodes[y].par
    /\ nodes[x].tag = nodes[y].tag
    /\ DOMAIN nodes[x].at = {"class"} /\ nodes[x].at = nodes[y].at

\* C9: two same-tag, same-class siblings without ids get distinct selectors,
\* and the selectors of all elements of one document are pairwise distinct.
C9_SelectorsDistinct ==
    (call.op = "getSelector" /\ ~call.ret.thrown) =>
        /\ \A y \in Elements : C9_Twins(call.arg, y) =>
              selectorText(windowGetSelector(y)) # call.ret.text
        /\ \A y \in Elements \ {call.arg} :
              selectorText(windowGetSelector(y)) # call.ret.text

\* The nodes an absolute path selects: each step picks, among the children of
\* the nodes selected so far, the elements with the step's tag that pass its
\* test; the root element is the only child of the document.
RECURSIVE C10_Select(_, _, _)
C10_Select(steps, i, context) ==
    IF i > Len(steps) THEN context
    ELSE LET candidates ==
                 {e \in Elements :
                     /\ nodes[e].tag = steps[i].tag
                     /\ IF i = 1 THEN nodes[e].par = 0 ELSE nodes[e].par \in context}
             chosen ==
                 {e \in candidates :
                     /\ steps[i].id # <<>> =>
                           ("id" \in DOMAIN nodes[e].at /\ nodes[e].at["id"] = steps[i].id)
                     /\ steps[i].class # <<>> =>
                           ("class" \in DOMAIN nodes[e].at
                            /\ nodes[e].at["class"] = steps[i].class)
                     /\ steps[i].position # 0 =>
                           Cardinality({s \in candidates :
                                           nodes[s].par = nodes[e].par /\ s <= e})
                             = steps[i].position}
         IN C10_Select(steps, i + 1, chosen)

C10_UniqueId(n) ==
    /\ "id" \in DOMAIN nodes[n].at /\ nodes[n].at["id"] # <<>>
    /\ \A e \in Elements \ {n} :
          ~("id" \in DOMAIN nodes[e].at /\ nodes[e].at["id"] = nodes[n].at["id"])

\* C10: the path of an element with a document-unique id has no step for any
\* ancestor of that element, and it selects exactly that element.
C10_IdTerminatesWalk ==
    (call.op = "getXpath" /\ C10_UniqueId(call.arg)) =>
        /\ Len(call.ret) = 1
        /\ C10_Select(call.ret, 1, {}) = {call.arg}

(***************************************************************************)
(* Properties of the extraction and of the route.                          *)
(***************************************************************************)
\* The patterns of the allowlist element e matches.
PatternsOf(e) == {i \in DOMAIN selectors : matchesPattern(e, selectors[i])}

\* The elements at least one pattern matches.
MatchedElements == {e \in Elements : PatternsOf(e) # {}}

FirstPattern(e) == CHOOSE i \in PatternsOf(e) : \A j \in PatternsOf(e) : i <= j

RecordNodes(records) == {records[i].node : i \in DOMAIN records}

\* C11: no two records are made for the same element, however many patterns
\* match it; every record is made at the first pattern of the allowlist that
\* matches its element; and when the evaluation returns, and in the reply,
\* there are exactly as many records as distinct matched elements, one for
\* each.
C11_OneRecordPerElement ==
    /\ \A i, j \in DOMAIN elementsArray :
          elementsArray[i].node = elementsArray[j].node => i = j
    /\ \A i \in DOMAIN elementsArray :
          /\ elementsArray[i].node \in MatchedElements
          /\ elementsArray[i].pattern = FirstPattern(elementsArray[i].node)
    /\ pc \in {"finally", "send"} =>
          /\ Len(elementsArray) = Cardinality(MatchedElements)
          /\ RecordNodes(elementsArray) = MatchedElements
    /\ (pc = "replied" /\ reply.status = 200) =>
          /\ Len(reply.elements) = Cardinality(MatchedElements)
          /\ RecordNodes(reply.elements) = MatchedElements

\* A reply with two records or more, one of them for an element that three
\* patterns or more match.
C11_Witness ==
    /\ pc = "replied" /\ reply.status = 200
    /\ Len(reply.elements) >= 2
    /\ \E i \in DOMAIN reply.elements : Cardinality(PatternsOf(reply.elements[i].node)) >= 3

\* C12: the element field of a record never contains the instrumentation
\* attribute data-a11y-el-exposed, neither on the element itself nor on a
\* descendant that an earlier visit instrumented.
C12_OriginalMarkup ==
    \A i \in DOMAIN elementsArray :
        \A k \in DOMAIN elementsArray[i].element :
            elementsArray[i].element[k] # "data-a11y-el-exposed"

\* The call of every in-page function throws for the element of record r.
C13_Failed(r) == window.victim = r.node /\ window.throwing = PageFunctions

\* C13: when the in-page functions throw for one element, the extraction is
\* not aborted: every processed element has its record, the record of the
\* failing element has accessibleText equal to the element's textContent,
\* an empty xpath and selector, no pseudo content, and its other fields as
\* read off the element; the records of the other elements are the ones
\* computed without a failure; each caught failure is logged; and the
\* evaluation returns as many records as there are matched elements, the
\* number it returns when nothing fails.
C13_FailureDegradesOneField ==
    /\ RecordNodes(elementsArray) = processedElements
    /\ \A i \in DOMAIN elementsArray :
          LET r == elementsArray[i]
          IN /\ r.tagName = nodes[r.node].tag
             /\ r.innerText = textContent(r.node)
             /\ r.title = OrUndefined(getAttribute(r.node, "title"))
             /\ r.role = OrUndefined(getAttribute(r.node, "role"))
             /\ IF C13_Failed(r)
                THEN /\ r.accessibleText = textContent(r.node)
                     /\ r.xpath = <<>>
                     /\ r.selector = <<>>
                     /\ r.pseudoBefore = NULL /\ r.pseudoAfter = NULL
                     /\ \A f \in PageFunctions : (f \o " function not available") \in console
                ELSE /\ "getAccessibleText" \notin window.missing =>
                            r.accessibleText = getAccessibleText(r.node, FALSE, StackLimit).v
                     /\ "getXpath" \notin window.missing => r.xpath = getXpath(r.node)
                     /\ "getSelector" \notin window.missing =>
                            r.selector = selectorText(windowGetSelector(r.node))
    /\ pc \in {"finally", "send"} => Len(elementsArray) = Cardinality(MatchedElements)
    /\ (pc = "replied" /\ reply.status = 200) =>
          Len(reply.elements) = Cardinality(MatchedElements)

\* A reply of two records or more whose first record is the one of the
\* element the functions threw for, its accessibleText, the textContent,
\* not being the name the resolver gives.
C13_Witness ==
    /\ pc = "replied" /\ reply.status = 200
    /\ Len(reply.elements) >= 2
    /\ C13_Failed(reply.elements[1])
    /\ reply.elements[1].accessibleText
          # getAccessibleText(reply.elements[1].node, FALSE, StackLimit).v

\* C14: when the call has completed, with a reply sent, no page that was
\* acquired is still open.
C14_PageClosed == pc = "replied" => page # "open"

\* The request has a Content-Type containing text/html and a body that is a
\* string with a character that is not white space.
C15_Acceptable ==
    /\ \E i \in DOMAIN request.contentType : request.contentType[i] = "text/html"
    /\ request.body.type = "string"
    /\ \E k \in DOMAIN request.body.text : ~IsWs(request.body.text[k])

\* C15: for a request whose body is missing, not a string, empty or only
\* white space, or whose Content-Type lacks text/html, extractAccessibleText
\* is never invoked (no browser is launched, no page created, no script added,
\* no element processed) and the reply is 400; the extraction runs only for
\* a non-empty string.
C15_RejectedBeforeDomWork ==
    ~C15_Acceptable =>
        /\ pc \in {"idle", "replied"}
        /\ ~browser /\ page = "none" /\ scripts = 0
        /\ processedElements = {} /\ elementsArray = <<>>
        /\ pc = "replied" => reply.status = 400

\* The reply 400 to a request with Content-Type text/html whose body is a
\* string of white space.
C15_Witness ==
    /\ pc = "replied" /\ reply.status = 400
    /\ \E i \in DOMAIN request.contentType : request.contentType[i] = "text/html"
    /\ request.body.type = "string" /\ request.body.text # <<>>

\* C16: the record of an element has the sentinel in the field of every
\* in-page function that is missing from window, and the condition is logged.
C16_MissingFunctionSentinel ==
    \A i \in DOMAIN elementsArray :
        LET r == elementsArray[i]
        IN /\ "getXpath" \in window.missing =>
                 /\ r.xpath = <<"function-not-available">>
                 /\ "getXpath function not available" \in console
           /\ "getSelector" \in window.missing =>
                 /\ r.selector = <<"function-not-available">>
                 /\ "getSelector function not available" \in console
           /\ "getAccessibleText" \in window.missing =>
                 /\ r.accessibleText = <<"function-not-available">>
                 /\ "getAccessibleText function not available" \in console

(***************************************************************************)
(* Properties of the native text alternatives.                             *)
(***************************************************************************)
\* Element n has no aria-labelledby, no aria-label and no role attribute and
\* is not ignored.
Plain(n) ==
    /\ ~Ignored(n)
    /\ ~hasAttribute(n, "aria-labelledby")
    /\ ~hasAttribute(n, "aria-label")
    /\ ~hasAttribute(n, "role")

C18_ImgName(c) ==
    LET at == nodes[c].at
    IN IF "alt" \in DOMAIN at THEN Normal(at["alt"])
       ELSE IF "title" \in DOMAIN at THEN Normal(at["title"])
       ELSE <<>>

\* What the children kids add, in document order: a text node its text, an
\* ignored element nothing, an img its name followed by a space.
RECURSIVE C18_Content(_)
C18_Content(kids) ==
    IF kids = <<>> THEN <<>>
    ELSE LET c == Head(kids)
         IN (IF nodes[c].type = 3 THEN nodes[c].data
             ELSE IF Ignored(c) \/ C18_ImgName(c) = <<>> THEN <<>>
             ELSE C18_ImgName(c) \o <<" ">>)
            \o C18_Content(Tail(kids))

\* Every child of n is a text node, an ignored element or a plain img.
C18_Covered(n) ==
    \A i \in DOMAIN childNodes(n) :
        LET c == childNodes(n)[i]
        IN nodes[c].type = 3 \/ Ignored(c) \/ (nodes[c].tag = "img" /\ Plain(c))

RECURSIVE C19_VisibleText(_)
C19_VisibleText(kids) ==
    IF kids = <<>> THEN <<>>
    ELSE LET c == Head(kids)
         IN (IF nodes[c].type = 3 THEN nodes[c].data
             ELSE IF StyleIgnored(c) THEN <<>>
             ELSE C19_VisibleText(childNodes(c)))
            \o C19_VisibleText(Tail(kids))

\* Every element below n is hidden by style or is a display:contents element
\* without attributes.
C19_Covered(n) ==
    \A d \in Descendants(n) :
        nodes[d].type = 1 =>
            StyleIgnored(d) \/ (nodes[d].disp = "contents" /\ nodes[d].at = NoAttrs)

C20_Attr(a) ==
    IF a \in DOMAIN nodes[call.arg].at THEN nodes[call.arg].at[a] ELSE <<>>

\* The first non-empty string of chain, <<>> when there is none.
RECURSIVE C20_FirstOf(_)
C20_FirstOf(chain) ==
    IF chain = <<>> THEN <<>>
    ELSE IF Head(chain) # <<>> THEN Head(chain)
    ELSE C20_FirstOf(Tail(chain))

\* The lower-cased type of the resolved input, "text" when it has none.
C20_Type ==
    IF C20_Attr("type") = <<>> THEN "text"
    ELSE IF C20_Attr("type") = <<"SUBMIT">> THEN "submit"
    ELSE C20_Attr("type")[1]

\* The text of the label of the resolved input: the label naming its id with
\* for, else the label around it, without the text of form controls.
C20_Label ==
    LET byFor == {l \in Elements : /\ nodes[l].tag = "label"
                                   /\ "for" \in DOMAIN nodes[l].at
                                   /\ C20_Attr("id") # <<>>
                                   /\ nodes[l].at["for"] = C20_Attr("id")}
        around == {l \in Ancestors(call.arg) : nodes[l].tag = "label"}
    IN IF byFor # {} THEN Normal(textContent(CHOOSE l \in byFor : TRUE))
       ELSE IF around # {} THEN Normal(textContent(CHOOSE l \in around : TRUE))
       ELSE <<>>

C20_Input == ResolvedElement /\ nodes[call.arg].tag = "input" /\ Plain(call.arg)

\* The chains of the types submit, reset, button, image and range.
C20_TypedChains ==
    C20_Input =>
        /\ C20_Type = "submit" =>
              call.ret.v = Normal(C20_FirstOf(<<C20_Attr("value"), <<"Submit">>>>))
        /\ C20_Type = "reset" =>
              call.ret.v = Normal(C20_FirstOf(<<C20_Attr("value"), <<"Reset">>>>))
        /\ C20_Type = "button" => call.ret.v = Normal(C20_Attr("value"))
        /\ C20_Type = "image" =>
              call.ret.v = Normal(C20_FirstOf(<<C20_Attr("alt"), C20_Attr("value"),
                                                <<"Submit">>>>))
        /\ C20_Type = "range" =>
              call.ret.v = Normal(C20_FirstOf(<<C20_Attr("aria-valuetext"),
                                                C20_Attr("aria-valuenow"),
                                                C20_Attr("value")>>))

\* The chain associated label, aria-placeholder, placeholder, title.
C20_LabelChain ==
    call.ret.v = Normal(C20_FirstOf(<<C20_Label, C20_Attr("aria-placeholder"),
                                      C20_Attr("placeholder"), C20_Attr("title")>>))

RECURSIVE C21_Concat(_)
C21_Concat(ids) ==
    IF ids = <<>> THEN <<>> ELSE nodes[Head(ids)].data \o C21_Concat(Tail(ids))

\* The text nodes below l, and those of them outside every input, select
\* and textarea nested in l.
C21_TextNodes(l) == {d \in Descendants(l) : nodes[d].type = 3}

C21_Outside(l) ==
    {d \in C21_TextNodes(l) :
        \A a \in Ancestors(d) \cap Descendants(l) :
            nodes[a].tag \notin {"input", "select", "textarea"}}

\* The labels naming the id of the control with for, and the labels around it.
C21_ByFor ==
    {l \in Elements : /\ nodes[l].tag = "label"
                      /\ "id" \in DOMAIN nodes[call.arg].at
                      /\ nodes[call.arg].at["id"] # <<>>
                      /\ "for" \in DOMAIN nodes[l].at
                      /\ nodes[l].at["for"] = nodes[call.arg].at["id"]}

C21_Around == {l \in Ancestors(call.arg) : nodes[l].tag = "label"}

C21_LookedUp ==
    /\ call.op = "getAssociatedLabel"
    /\ nodes[call.arg].tag \in {"input", "select", "textarea"}

\* C21: the associated label of a form control is the trimmed text of the
\* first label naming its id with for when there is one, the labels around
\* the control not being consulted; otherwise the trimmed text of the nearest
\* label around it, without the text of the input, select and textarea
\* elements in that label; and the empty string when there is neither.
C21_ExplicitBeforeImplicit ==
    C21_LookedUp =>
        /\ ~call.ret.thrown
        /\ call.ret.v =
             IF C21_ByFor # {}
             THEN LET l == CHOOSE x \in C21_ByFor : \A y \in C21_ByFor : x <= y
                  IN Trim(C21_Concat(SortSet(C21_TextNodes(l))))
             ELSE IF C21_Around # {}
             THEN LET l == CHOOSE x \in C21_Around : \A y \in C21_Around : x >= y
                  IN Trim(C21_Concat(SortSet(C21_Outside(l))))
             ELSE <<>>

\* A control inside a label with text that a label without text names with
\* for: the result is the empty string.
C21_Witness ==
    /\ C21_LookedUp
    /\ C21_ByFor # {} /\ C21_Around # {}
    /\ \A l \in C21_Around : C21_Outside(l) # {}
    /\ call.ret.v = <<>>

(***************************************************************************)
(* Properties of the statistics pass.                                      *)
(***************************************************************************)
\* The class tokens of element e.
C22_Tokens(e) ==
    IF "class" \in DOMAIN nodes[e].at
    THEN {SplitWs(nodes[e].at["class"])[i] : i \in DOMAIN SplitWs(nodes[e].at["class"])}
    ELSE {}

\* The sum of the numbers table holds for the keys in keys.
RECURSIVE C22_Sum(_, _)
C22_Sum(table, keys) ==
    IF keys = {} THEN 0
    ELSE LET k == CHOOSE x \in keys : TRUE
         IN table[k].n + C22_Sum(table, keys \ {k})

\* C22: the table is built when the selector script is loaded, before any
\* element is instrumented, and from then on holds, for every tag name of
\* the document, the number of elements with that tag, and for every class
\* token the number of elements carrying it, candidates of the extraction or
\* not; the tag counts sum to the number of elements.
C22_ExactCounts ==
    /\ ~axe.set => (exposed = {} /\ processedElements = {})
    /\ scripts >= SelectorScript => axe.set
    /\ axe.set =>
          /\ DOMAIN axe.data.tags = {nodes[e].tag : e \in Elements}
          /\ \A t \in DOMAIN axe.data.tags :
                axe.data.tags[t] = Count(Cardinality({e \in Elements : nodes[e].tag = t}))
          /\ C22_Sum(axe.data.tags, DOMAIN axe.data.tags) = Cardinality(Elements)
          /\ \A e \in Elements :
                \A c \in C22_Tokens(e) :
                   /\ c \in DOMAIN axe.data.classes
                   /\ axe.data.classes[c] =
                         Count(Cardinality({d \in Elements : c \in C22_Tokens(d)}))

(***************************************************************************)
(* Properties of the code analysis service.                                *)
(***************************************************************************)
C23_Analyzed == call.op = "analyzeSnippet"

C24_Path(n) == SortSet((Ancestors(n) \cup {n}) \cap Elements)

\* The elements that have the id of e, which is not empty.
C24_SameId(e) ==
    IF "id" \in DOMAIN nodes[e].at /\ nodes[e].at["id"] # <<>>
    THEN {d \in Elements : "id" \in DOMAIN nodes[d].at /\ nodes[d].at["id"] = nodes[e].at["id"]}
    ELSE {}

\* The class tokens of e, in order.
C24_Classes(e) ==
    IF "class" \in DOMAIN nodes[e].at THEN SplitWs(nodes[e].at["class"]) ELSE <<>>

\* The 1-based position of e among the sibling elements with its tag.
C24_Position(e) ==
    Cardinality({d \in Elements : /\ nodes[d].par = nodes[e].par
                                  /\ nodes[d].tag = nodes[e].tag
                                  /\ d <= e})

\* The step of e by the priority id, class, ordinal.
C24_Step(e) ==
    IF Cardinality(C24_SameId(e)) = 1
    THEN [tag |-> nodes[e].tag, id |-> nodes[e].at["id"], class |-> <<>>, position |-> 0]
    ELSE IF C24_Classes(e) # <<>>
    THEN [tag |-> nodes[e].tag, id |-> <<>>, class |-> C24_Classes(e)[1], position |-> 0]
    ELSE [tag |-> nodes[e].tag, id |-> <<>>, class |-> <<>>,
          position |-> IF C24_Position(e) > 1 THEN C24_Position(e) ELSE 0]

\* C24: the path of an element has one step for each element from the root
\* down to it, and the step of an element is /tag[@id='id'] when its id is
\* the id of exactly one element of the document, else /tag[@class='token']
\* with its first class token when it has one, else /tag, followed by [n]
\* only when its position n among the siblings with its tag exceeds 1; an
\* element whose id several elements share has no id step.
C24_StepPriority ==
    call.op = "getXpath" =>
        /\ Len(call.ret) = Len(C24_Path(call.arg))
        /\ \A i \in DOMAIN call.ret : call.ret[i] = C24_Step(C24_Path(call.arg)[i])
        /\ \A i \in DOMAIN call.ret :
              Cardinality(C24_SameId(C24_Path(call.arg)[i])) > 1 => call.ret[i].id = <<>>

\* The path of the second of two sibling elements that share an id and have
\* no class: its last step is the ordinal 2.
C24_Witness ==
    /\ call.op = "getXpath"
    /\ Cardinality(C24_SameId(call.arg)) > 1
    /\ C24_Classes(call.arg) = <<>>
    /\ call.ret[Len(call.ret)].position = 2
    /\ call.ret[Len(call.ret)].id = <<>>

(***************************************************************************)
(* Properties of the fallback of window.getSelector.                       *)
(***************************************************************************)
\* The elements from n up to the child of the root, n first.
C25_Levels(n) == SortSet(((Ancestors(n) \cup {n}) \cap Elements) \ {1})

\* f is tag[.class][:nth-child(N)] of the element e.
C25_Positional(f, e) ==
    /\ f.tag = nodes[e].tag
    /\ f.id = <<>>
    /\ f.attr = <<>>
    /\ f.cls # <<>> => \E i \in DOMAIN classList(e) : f.cls = escapeSelector(classList(e)[i])
    /\ f.nth \in {0, indexInParent(e)}

\* C25: when the synthesis throws, because the base getSelector fails or the
\* frequency table is missing, window.getSelector throws nothing and returns
\* one fragment tag[.class][:nth-child(N)] for each level from the target to
\* the root.
C25_PositionalFallback ==
    (call.op = "getSelector" /\ (BaseFails \/ TableMissing)) =>
        /\ ~call.ret.thrown
        /\ Len(call.ret.selector) = Len(C25_Levels(call.arg))
        /\ \A i \in DOMAIN call.ret.selector :
              C25_Positional(call.ret.selector[i], C25_Levels(call.arg)[i])

(***************************************************************************)
(* Properties of the contextual escalation.                                *)
(***************************************************************************)
\* The ancestor j levels above n, 0 when there is none.
RECURSIVE C26_Up(_, _)
C26_Up(n, j) ==
    IF n = 0 \/ j = 0 THEN n ELSE C26_Up(nodes[n].par, j - 1)

\* f describes the element e: #id with its id, or its tag with one of its
\* classes or none and its position among the children of its parent or none.
C26_Describes(f, e) ==
    IF f.id # <<>>
    THEN f = [Frag EXCEPT !.id = f.id] /\ hasAttribute(e, "id") /\ nodes[e].at["id"] = f.id
    ELSE /\ f.tag = nodes[e].tag
         /\ f.attr = <<>>
         /\ f.cls # <<>> => \E i \in DOMAIN classList(e) : f.cls = classList(e)[i]
         /\ f.nth \in {0, indexInParent(e)}

\* C26: a base selector that is not generic is returned as it is; a generic
\* one is returned behind at most three fragments, the one at distance j from
\* it describing the ancestor j levels above the target, none of them the
\* root; #id can only be the first fragment and every ancestor with an id
\* that is reached gives one; the climb ends only at an id, at the third
\* level, or below the root.
C26_ContextualEscalation ==
    (call.op = "getSelector" /\ faults = {}) =>
        LET base == getSelector(call.arg)
            sel == call.ret.selector
            k == Len(sel) - Len(base)
        IN IF ~shouldForceHierarchical(selectorText(base)) THEN sel = base
           ELSE /\ k \in 0..3
                /\ SubSeq(sel, k + 1, Len(sel)) = base
                /\ \A i \in 1..k :
                      LET e == C26_Up(call.arg, k - i + 1)
                      IN /\ e \notin {0, 1}
                         /\ C26_Describes(sel[i], e)
                         /\ sel[i].id # <<>> => i = 1
                         /\ Truthy(getAttribute(e, "id")) => sel[i].id # <<>>
                /\ \/ k = 3
                   \/ k > 0 /\ sel[1].id # <<>>
                   \/ C26_Up(call.arg, k + 1) \in {0, 1}

\* A generic base four levels below the root, under three ancestors without
\* an id: three fragments are added and the climb stops below the fourth.
C26_Witness ==
    /\ call.op = "getSelector"
    /\ faults = {}
    /\ shouldForceHierarchical(selectorText(getSelector(call.arg)))
    /\ Len(call.ret.selector) = 4
    /\ call.ret.selector[1].id = <<>>
    /\ C26_Up(call.arg, 4) \notin {0, 1}

(***************************************************************************)
(* Properties of the role-specific names.                                  *)
(***************************************************************************)
\* The value of attribute a of n, the empty string when it is missing.
C27_Attr(n, a) == IF a \in DOMAIN nodes[n].at THEN nodes[n].at[a] ELSE <<>>

\* The first of two strings that is not empty.
C27_Else(a, b) == IF a # <<>> THEN a ELSE b

\* The role of n in lower case, NULL without the attribute.
C27_Role(n) ==
    IF "role" \in DOMAIN nodes[n].at THEN toLowerCase(nodes[n].at["role"]) ELSE NULL

\* The content of an element whose children are text nodes.
C27_Content(n) == Normal(C21_Concat(childNodes(n)))

\* What the role of n gives: the empty string when it gives nothing.
C27_RoleName(n) ==
    LET role == C27_Role(n)
    IN IF role \in {<<"button">>, <<"heading">>, <<"group">>, <<"region">>}
       THEN C27_Content(n)
       ELSE IF role = <<"link">> THEN C27_Else(C27_Content(n), C27_Attr(n, "title"))
       ELSE IF role \in {<<"textbox">>, <<"searchbox">>}
       THEN C27_Else(C27_Attr(n, "aria-placeholder"), C27_Attr(n, "placeholder"))
       ELSE IF role \in {<<"slider">>, <<"spinbutton">>, <<"progressbar">>}
       THEN C27_Else(C27_Attr(n, "aria-valuetext"), C27_Attr(n, "aria-valuenow"))
       ELSE IF role = <<"img">> THEN C27_Attr(n, "alt")
       ELSE <<>>

\* An element resolved by the native step: it has neither aria-labelledby nor
\* aria-label and is not ignored.
C27_Native ==
    /\ ResolvedElement
    /\ ~Ignored(call.arg)
    /\ DOMAIN nodes[call.arg].at \cap {"aria-labelledby", "aria-label"} = {}

\* C27: in the native step the name a declared role gives (child content for
\* button, heading, group and region; child content, else title, for link;
\* aria-placeholder, else placeholder, for textbox and searchbox;
\* aria-valuetext, else aria-valuenow, for slider, spinbutton and
\* progressbar; alt for img) is the name whenever it is not empty, whatever
\* the tag's own chain gives, and the tag's chain gives the name only when
\* the role gives nothing or no role is declared.
C27_RoleBeforeTag ==
    C27_Native =>
        IF C27_RoleName(call.arg) # <<>>
        THEN call.ret.v = Normal(C27_RoleName(call.arg))
        ELSE call.ret.v = normalizeText(nativeByTag(call.arg, StackLimit).v)

\* An input with role textbox and aria-placeholder inside a label with text:
\* the name is the aria-placeholder, not the label.
C27_Witness ==
    /\ C27_Native
    /\ nodes[call.arg].tag = "input"
    /\ C27_Role(call.arg) = <<"textbox">>
    /\ C27_RoleName(call.arg) = <<"ap", " ">>
    /\ nodes[nodes[call.arg].par].tag = "label"
    /\ call.ret.v = <<"ap">>

(***************************************************************************)
(* Properties of the depth limit of the child walk.                        *)
(***************************************************************************)
\* The text nodes whose parent element lies more than 3 levels below n.
C28_TooDeep(n) ==
    {t \in Descendants(n) :
        /\ nodes[t].type = 3
        /\ Cardinality(Ancestors(t) \ (Ancestors(n) \cup {n})) > 3}

\* C28: the name of an element holds no text of an element that lies more
\* than 3 levels below it, whatever attributes the elements between them
\* carry.
C28_DepthLimited ==
    ResolvedElement =>
        \A t \in C28_TooDeep(call.arg) :
            \A i \in DOMAIN call.ret.v : <<call.ret.v[i]>> # nodes[t].data

(***************************************************************************)
(* Properties of the shared browser manager.                               *)
(***************************************************************************)
\* C29: whatever the interleaving of the calls, at most one browser is
\* launched while no close() has shut one down, and every browser launched
\* and not shut down is the one the manager references, so that close() can
\* shut it down.
C29_OneReferencedBrowser ==
    /\ manager.closed = {} => Cardinality(manager.launched) <= 1
    /\ \A instance \in manager.launched \ manager.closed : manager.browser = instance

(***************************************************************************)
(* Properties of the path as a query.                                      *)
(***************************************************************************)
\* C30: the path getXpath returns for an element of the document, evaluated
\* from the document root, selects a set of nodes that contains the element,
\* whatever ids and classes the element and its ancestors carry.
C30_PathSelectsTarget ==
    call.op = "getXpath" => call.arg \in C10_Select(call.ret, 1, {})

====
